---- MODULE Spec2Model ----
(***************************************************************************)
(* NewCrc: manifest-driven, multi-threaded file integrity verification.    *)
(* Model of src/main.cpp (variant "full") and src/main-light/main-light.cpp*)
(* (variant "light"): manifest parsing, digest normalisation, the manager  *)
(* thread, the worker pool and the messages posted to the window.          *)
(* Strings are sequences of one-character strings.                         *)
(***************************************************************************)
EXTENDS Integers, Sequences, FiniteSets, TLC

(***************************************************************************)
(* Bounds of the model.                                                    *)
(***************************************************************************)
\* longest manifest line enumerated for the line parser
MaxLineLen == 5
\* most entries a manifest of the run model carries
MaxFiles == 2
\* largest value std::thread::hardware_concurrency() reports in the model
MaxHw == 1
\* most chunks one file delivers to the read loop
MaxChunks == 1
\* most lines of a manifest enumerated for LoadManifest's line loop
MaxLines == 2
\* longest digest string enumerated for NormalizeHash
MaxHashLen == 4
\* largest hardware_concurrency() of the machines the pool alone is started on
MaxHardware == 5
\* the steady clock is followed for MaxIntervals times UI_UPDATE_INTERVAL_MS
MaxIntervals == 2
\* threads that call post_progress side by side, and the calls each of them makes
MaxCallers == 2
MaxCalls == 2
\* most chunks a file delivers to the read loop when the pool alone is run
MaxReads == 2
\* most bytes of a file whose CRC is computed byte by byte
MaxBytes == 3
\* most calls of SpeedBuffer::AddSample that are followed
MaxAdds == 6
\* the entries of crc32c_table that are followed are those of 0..MaxEntry
MaxEntry == 2

(***************************************************************************)
(* Strings.                                                                *)
(***************************************************************************)
Npos == -1

Min(S) == CHOOSE x \in S : \A y \in S : x <= y

\* whitespace as operator>> and std::isspace see it (the characters the model uses)
WhiteSpace == {" ", "\t"}

\* a transform that leaves every character as it is
KeepCase(c) == c

ToLower(c) ==
  CASE c = "A" -> "a"
    [] c = "B" -> "b"
    [] c = "X" -> "x"
    [] OTHER -> c

\* std::string::find_first_not_of: 0-based position, Npos when there is none
FindFirstNotOf(s, chars) ==
  LET idx == {i \in 1..Len(s) : s[i] \notin chars}
  IN IF idx = {} THEN Npos ELSE Min(idx) - 1

\* std::string::find_first_of
FindFirstOf(s, chars) ==
  LET idx == {i \in 1..Len(s) : s[i] \in chars}
  IN IF idx = {} THEN Npos ELSE Min(idx) - 1

\* s.erase(0, n): n = npos erases the whole string
EraseFront(s, n) == IF n = Npos THEN <<>> ELSE SubSeq(s, n + 1, Len(s))

StartsWith(s, p) == Len(s) >= Len(p) /\ SubSeq(s, 1, Len(p)) = p

\* a NormalizeHash that does not look for "0x"
NormalizeHashKeepPrefix(hash) ==
  LET s1 == [i \in 1..Len(hash) |-> ToLower(hash[i])]
      s3 == EraseFront(s1, FindFirstNotOf(s1, {"0"}))
  IN IF s3 = <<>> THEN <<"0">> ELSE s3

NormalizeHash(hash) ==
  LET s1 == [i \in 1..Len(hash) |-> ToLower(hash[i])]
      s2 == IF StartsWith(s1, <<"0", "x">>) THEN SubSeq(s1, 3, Len(s1)) ELSE s1
      s3 == EraseFront(s2, FindFirstNotOf(s2, {"0"}))
  IN IF s3 = <<>> THEN <<"0">> ELSE s3

HexDigits == <<"0", "1", "2", "3", "4", "5", "6", "7",
               "8", "9", "a", "b", "c", "d", "e", "f">>

\* std::format("{:0Wx}", v) and operator<< with hex, setfill('0'), setw(W)
RECURSIVE FormatHex(_, _)
FormatHex(v, width) ==
  IF v < 16
  THEN [i \in 1..(IF width > 1 THEN width - 1 ELSE 0) |-> "0"] \o <<HexDigits[v + 1]>>
  ELSE FormatHex(v \div 16, width - 1) \o <<HexDigits[(v % 16) + 1]>>

(***************************************************************************)
(* Manifest lines (LoadManifest's loop body).                              *)
(***************************************************************************)
\* iss >> hash: skip leading whitespace, take the characters up to the next
\* whitespace; rest is what the stream still holds, good is false when the
\* extraction failed or ran into the end of the string
ExtractToken(s) ==
  LET start == FindFirstNotOf(s, WhiteSpace)
      after == EraseFront(s, start)
      stop  == FindFirstOf(after, WhiteSpace)
  IN IF start = Npos THEN [tok |-> <<>>, rest |-> <<>>, good |-> FALSE]
     ELSE IF stop = Npos THEN [tok |-> after, rest |-> <<>>, good |-> FALSE]
     ELSE [tok |-> SubSeq(after, 1, stop), rest |-> EraseFront(after, stop), good |-> TRUE]

\* an erase that removes leading spaces only
StripSpacesOnly == {" "}

\* the characters path.erase(0, path.find_first_not_of(" *")) removes
StripChars == {" ", "*"}

StripPath(path) == EraseFront(path, FindFirstNotOf(path, StripChars))

\* one line of the manifest that is not skipped: the (hash, path) pair
ParseLine(line) ==
  LET t    == ExtractToken(line)
      path == IF t.good THEN t.rest ELSE <<>>
  IN [hash |-> t.tok, path |-> StripPath(path)]

\* line.empty() || line.starts_with(';')
SkippedLine(line) == line = <<>> \/ line[1] = ";"


(***************************************************************************)
(* Manifest candidates and LoadManifest.                                   *)
(***************************************************************************)
\* ManagerThread's candidates, in the order it tries them
Candidates(v) ==
  IF v = "full"
  THEN <<"CRC.crc32", "CRC.crc32c", "CRC.xxhash3", "CRC.city128",
         "CRC.sha256", "CRC.sha512", "CRC.blake2b", "CRC.blake2s">>
  ELSE <<"CRC.xxhash3", "CRC.crc32", "CRC.city128">>

CandidateNames(v) == {Candidates(v)[i] : i \in 1..Len(Candidates(v))}

\* manifestPath.extension().string()
Extension(name) ==
  CASE name = "CRC.crc32"   -> ".crc32"
    [] name = "CRC.crc32c"  -> ".crc32c"
    [] name = "CRC.xxhash3" -> ".xxhash3"
    [] name = "CRC.city128" -> ".city128"
    [] name = "CRC.sha256"  -> ".sha256"
    [] name = "CRC.sha512"  -> ".sha512"
    [] name = "CRC.blake2b" -> ".blake2b"
    [] name = "CRC.blake2s" -> ".blake2s"
    [] OTHER -> ""

\* the if / else-if chain of LoadManifest: "" when the chain ends in return false
ExtHashType(v, ext) ==
  IF v = "full"
  THEN CASE ext = ".crc32"   -> "CRC32"
         [] ext = ".crc32c"  -> "CRC32C"
         [] ext = ".xxhash3" -> "XXH3"
         [] ext = ".city128" -> "CITY128"
         [] ext = ".sha256"  -> "SHA256"
         [] ext = ".sha512"  -> "SHA512"
         [] ext = ".blake2b" -> "BLAKE2B"
         [] ext = ".blake2s" -> "BLAKE2S"
         [] OTHER -> ""
  ELSE CASE ext = ".xxhash3" -> "XXH3"
         [] ext = ".crc32"   -> "CRC32"
         [] ext = ".city128" -> "CITY128"
         [] OTHER -> ""

\* a line loop without its if (!path.empty())
RECURSIVE ParseLinesNoPathCheck(_)
ParseLinesNoPathCheck(lines) ==
  IF lines = <<>> THEN <<>>
  ELSE LET line == Head(lines)
           e    == ParseLine(line)
       IN IF SkippedLine(line)
          THEN ParseLinesNoPathCheck(Tail(lines))
          ELSE <<[path |-> e.path, expectedHash |-> e.hash]>>
                 \o ParseLinesNoPathCheck(Tail(lines))

\* the while (std::getline(f, line)) loop: entries pushed for the lines, in order
RECURSIVE ParseLines(_)
ParseLines(lines) ==
  IF lines = <<>> THEN <<>>
  ELSE LET line == Head(lines)
           e    == ParseLine(line)
       IN IF SkippedLine(line) \/ e.path = <<>>
          THEN ParseLines(Tail(lines))
          ELSE <<[path |-> e.path, expectedHash |-> e.hash]>> \o ParseLines(Tail(lines))

\* file: [exists, openable, lines], the manifest as the file system holds it
LoadManifest(v, manifestPath, file, outFiles, outHashType) ==
  LET kind == ExtHashType(v, Extension(manifestPath))
      fail == [ok |-> FALSE, files |-> outFiles, hashType |-> outHashType]
  IN IF ~file.openable THEN fail
     ELSE IF kind = "" THEN fail
     ELSE [ok |-> TRUE, files |-> outFiles \o ParseLines(file.lines), hashType |-> kind]

\* a candidate loop without its break: every loadable candidate is loaded
RECURSIVE TryCandidatesNoBreak(_, _, _, _, _)
TryCandidatesNoBreak(v, fs, i, files, hashType) ==
  IF i > Len(Candidates(v))
  THEN [loadedFile |-> "", files |-> files, hashType |-> hashType]
  ELSE LET c    == Candidates(v)[i]
           r    == LoadManifest(v, c, fs[c], files, hashType)
           used == fs[c].exists /\ r.ok
           rest == TryCandidatesNoBreak(v, fs, i + 1, IF used THEN r.files ELSE files,
                                        IF used THEN r.hashType ELSE hashType)
       IN IF used /\ rest.loadedFile = ""
          THEN [loadedFile |-> c, files |-> rest.files, hashType |-> rest.hashType]
          ELSE rest

\* a candidate loop that goes on to the next candidate when one yields no entry
RECURSIVE TryCandidatesSkipEmpty(_, _, _, _, _)
TryCandidatesSkipEmpty(v, fs, i, files, hashType) ==
  IF i > Len(Candidates(v))
  THEN [loadedFile |-> "", files |-> files, hashType |-> hashType]
  ELSE LET c == Candidates(v)[i]
           r == LoadManifest(v, c, fs[c], files, hashType)
       IN IF fs[c].exists /\ r.ok /\ r.files # <<>>
          THEN [loadedFile |-> c, files |-> r.files, hashType |-> r.hashType]
          ELSE TryCandidatesSkipEmpty(v, fs, i + 1, files, hashType)

\* the for (const auto &c : candidates) loop of ManagerThread, from candidate i on
RECURSIVE TryCandidates(_, _, _, _, _)
TryCandidates(v, fs, i, files, hashType) ==
  IF i > Len(Candidates(v))
  THEN [loadedFile |-> "", files |-> files, hashType |-> hashType]
  ELSE LET c == Candidates(v)[i]
           r == LoadManifest(v, c, fs[c], files, hashType)
       IN IF fs[c].exists /\ r.ok
          THEN [loadedFile |-> c, files |-> r.files, hashType |-> r.hashType]
          ELSE TryCandidates(v, fs, i + 1, files, hashType)

SelectManifest(v, fs) == TryCandidates(v, fs, 1, <<>>, "NONE")

\* min(hardware_concurrency(), 4u), then 2 when that is 0
MaxPool == 4

\* a num_threads without the std::min
NumThreadsNoCap(hardware_concurrency) ==
  IF hardware_concurrency = 0 THEN 2 ELSE hardware_concurrency

NumThreads(hardware_concurrency) ==
  LET n == IF hardware_concurrency < MaxPool THEN hardware_concurrency ELSE MaxPool
  IN IF n = 0 THEN 2 ELSE n


(***************************************************************************)
(* VerifyFile helpers.                                                     *)
(***************************************************************************)
\* a switch with a case for every kind LoadManifest maps
SupportedKindsWithSha512(v) ==
  IF v = "full"
  THEN {"CRC32", "CRC32C", "SHA256", "SHA512", "BLAKE2B", "BLAKE2S", "XXH3", "CITY128"}
  ELSE {"CRC32", "XXH3", "CITY128"}

\* the kinds with a case in VerifyFile's switch (hashType)
SupportedKinds(v) ==
  IF v = "full"
  THEN {"CRC32", "CRC32C", "SHA256", "BLAKE2B", "BLAKE2S", "XXH3", "CITY128"}
  ELSE {"CRC32", "XXH3", "CITY128"}

\* the hex text of a digest value d, as each case of the switch renders it
ResultHash(kind, d) ==
  CASE kind \in {"CRC32", "CRC32C"}   -> FormatHex(d, 8)
    [] kind = "XXH3"                  -> FormatHex(d, 16)
    [] kind = "CITY128"               -> FormatHex(0, 16) \o FormatHex(d, 16)
    [] kind \in {"SHA256", "BLAKE2S"} -> FormatHex(d, 64)
    [] OTHER                          -> FormatHex(d, 128)

\* status = (NormalizeHash(resultHash) == NormalizeHash(item.expectedHash)) ? OK : CORRUPTED
CompareStatus(resultHash, expectedHash) ==
  IF NormalizeHash(resultHash) = NormalizeHash(expectedHash) THEN "OK" ELSE "CORRUPTED"

\* int pct = (fileSize > 0) ? (int)(readTotal * 100 / fileSize) : 0
Percent(readTotal, fileSize) ==
  IF fileSize > 0 THEN (readTotal * 100) \div fileSize ELSE 0

\* HashWorker's statusStr
StatusStr(status) ==
  CASE status = "OK"        -> "OK"
    [] status = "CORRUPTED" -> "CORRUPTED"
    [] status = "MISSING"   -> "MISSING"
    [] OTHER                -> "ERROR"

(***************************************************************************)
(* The environment of a run: the manifests on disk and the files' content. *)
(***************************************************************************)
\* expected digests as manifests spell them: all of them normalise to "a"
ExpectedOf(i) ==
  CASE i % 3 = 1 -> <<"0", "A">>
    [] i % 3 = 2 -> <<"0", "x", "a">>
    [] OTHER     -> <<"a">>

RunLine(i) == ExpectedOf(i) \o <<" ", "*", "f", HexDigits[i + 1]>>

ManifestOf(n) == [i \in 1..n |-> RunLine(i)]

AbsentFile == [exists |-> FALSE, openable |-> FALSE, lines |-> <<>>]

NoManifests == [c \in CandidateNames("full") |-> AbsentFile]

\* the candidates a run of the model finds alone on disk: one kind with a case in
\* VerifyFile's switch and, in main.cpp, the kind without one
RunCandidates(v) == IF v = "full" THEN {"CRC.crc32", "CRC.sha512"} ELSE {"CRC.xxhash3"}

\* the longest manifest of a run: main-light.cpp's pool is main.cpp's, line for
\* line, and is run on the shorter manifests only
RunFiles(v) == IF v = "full" THEN MaxFiles ELSE MaxFiles - 1

\* a manifest that holds one comment line and nothing else
CommentOnly == <<<<";", "a">>>>

\* the manifests a run of the model finds: none, or one candidate with 0..RunFiles
\* lines or with a comment only, or an unreadable first candidate in front of a
\* one-line second one
RunDisks(v) ==
  {NoManifests}
  \cup {[NoManifests EXCEPT ![c] = [exists |-> TRUE, openable |-> TRUE, lines |-> ManifestOf(n)]] :
          c \in RunCandidates(v), n \in 0..RunFiles(v)}
  \cup {[NoManifests EXCEPT
           ![Candidates(v)[1]] = [exists |-> TRUE, openable |-> TRUE, lines |-> CommentOnly]]}
  \cup {[NoManifests EXCEPT
           ![Candidates(v)[1]] = [exists |-> TRUE, openable |-> FALSE, lines |-> <<>>],
           ![Candidates(v)[2]] = [exists |-> TRUE, openable |-> TRUE, lines |-> ManifestOf(1)]]}

\* the states of a candidate on disk for the candidate loop: absent, present but not
\* openable, openable without a line, openable with the one line that names it
DiskStates == {"absent", "locked", "empty", "one"}

\* the path a candidate's line names: "m" and the candidate's place in main.cpp's list
CandidatePath(c) ==
  <<"m", HexDigits[(CHOOSE i \in 1..Len(Candidates("full")) : Candidates("full")[i] = c) + 1]>>

CandidateLine(c) == <<"a", " ", "*">> \o CandidatePath(c)

CandidateFile(st, c) ==
  CASE st = "absent" -> AbsentFile
    [] st = "locked" -> [exists |-> TRUE, openable |-> FALSE, lines |-> <<CandidateLine(c)>>]
    [] st = "empty"  -> [exists |-> TRUE, openable |-> TRUE, lines |-> <<>>]
    [] OTHER         -> [exists |-> TRUE, openable |-> TRUE, lines |-> <<CandidateLine(c)>>]

\* every combination of the candidates' states
LoadDisks(v) ==
  {[c \in CandidateNames("full") |->
      IF c \in CandidateNames(v) THEN CandidateFile(st[c], c) ELSE AbsentFile] :
     st \in [CandidateNames(v) -> DiskStates]}

\* lines of a manifest for the line loop: a blank line, a comment, a digest alone,
\* a digest followed by spaces and '*' alone, spaces alone, and four lines with a path
ManifestLines ==
  { <<>>,
    <<";", "a", " ", "b">>,
    <<"a">>,
    <<"a", " ", "*", " ">>,
    <<" ", " ">>,
    <<"a", " ", "b">>,
    <<"b", " ", "*", "a">>,
    <<" ", "a", "\t", "a", " ", "b">>,
    <<"0", "x", "A", " ", " ", "a", "*">> }

RECURSIVE Manifests(_)
Manifests(n) ==
  IF n = 0 THEN {<<>>}
  ELSE LET shorter == Manifests(n - 1)
       IN shorter \cup {Append(m, l) : m \in {u \in shorter : Len(u) = n - 1},
                                      l \in ManifestLines}

\* the first candidate alone on disk, with each manifest of up to MaxLines lines
ManifestDisks(v) ==
  {[NoManifests EXCEPT ![Candidates(v)[1]] = [exists |-> TRUE, openable |-> TRUE, lines |-> m]] :
     m \in Manifests(MaxLines)}

\* the characters of the manifest lines the line parser is run on
LineChars == {"a", " ", "\t", "*", ";"}

RECURSIVE Strings(_)
Strings(n) ==
  IF n = 0 THEN {<<>>}
  ELSE LET shorter == Strings(n - 1)
       IN shorter \cup {Append(t, c) : t \in {u \in shorter : Len(u) = n - 1}, c \in LineChars}

\* digest values a file's content can have: 0xa matches the manifests, 0xa0 does not
ContentDigests == {10, 160}

(***************************************************************************)
(* State.  The messages posted to the window form one queue; the model     *)
(* keeps its projections: per worker the messages about the entry it is    *)
(* on, per entry the first and the LogLine message, the GlobalProgress     *)
(* messages, and ManagerThread's own messages.                             *)
(***************************************************************************)
VARIABLES
  variant,                \* "full": main.cpp, "light": main-light.cpp
  g_isRunning, g_stopRequested,
  g_CountOk, g_CountCorrupted, g_CountMissing,
  g_nextFileIndex, g_filesProcessedCount,
  mgr,                    \* ManagerThread: position and locals
  wk,                     \* HashWorker threads: position and locals
  disk,                   \* the manifests ManagerThread found on disk
  fileEvents,             \* per entry: "start" for the 0% message VerifyFile opens with
                          \* and "log" for each LogLine, since Start, in order
  globalEvents,           \* filesDone of the GlobalProgress messages since Start, in order
  runEvents,              \* ManagerThread's other messages since Start, in order
  cancelTriggered,        \* Stop was clicked in this run before its terminal event
  uiClosed,               \* the window was destroyed
  line, parsed,           \* input and result of the line parser
  h, normalized,          \* input and results of NormalizeHash
  hardware,               \* the values hardware_concurrency() can report on this
                          \* machine
  longest,                \* the most chunks a file on disk delivers, and the
                          \* largest size, in chunks, fs::file_size returns
  now,                    \* steady_clock::now() in ms, Unobserved where the clock
                          \* is not followed
  g_lastUIUpdate,         \* in ms since the clock's epoch
  g_uiMutex,              \* the thread that holds it, 0 when free
  callers,                \* threads inside post_progress: position and locals
  forwarded,              \* the FileProgress messages those threads posted, in order
  faults,                 \* the calls of VerifyFile that can throw on this machine:
                          \* "exists" (fs::exists), "buffer" (the read buffer)
  crcRun,                 \* one CRC read loop: the file's bytes, the bytes consumed,
                          \* the running crc and the value returned
  speed,                  \* a SpeedBuffer: its samples and the AddSample calls made
  crc32c,                 \* ComputeCRC32C's statics in memory, and the threads inside
                          \* ComputeCRC32C: position, stores not yet in memory, and
                          \* the table entry the last CRC step read
  sinceStop               \* history: what the workers did while g_stopRequested was
                          \* set, kept for the properties about cancellation

counters == <<g_CountOk, g_CountCorrupted, g_CountMissing>>

posts == <<fileEvents, globalEvents, runEvents>>

\* the inputs and results of the functions that are run on their own, and the
\* machine
given == <<line, parsed, h, normalized, hardware, longest, faults, crcRun, speed,
           crc32c>>

inputs == <<given, sinceStop>>

\* the throttle but for its timestamp
throttle == <<now, g_uiMutex, callers, forwarded>>

pure == <<inputs, throttle, g_lastUIUpdate>>

vars == <<variant, g_isRunning, g_stopRequested, g_CountOk, g_CountCorrupted,
          g_CountMissing, g_nextFileIndex, g_filesProcessedCount, mgr, wk, disk,
          fileEvents, globalEvents, runEvents, cancelTriggered, uiClosed, line,
          parsed, h, normalized, hardware, longest, now, g_lastUIUpdate, g_uiMutex,
          callers, forwarded, faults, crcRun, speed, crc32c, sinceStop>>

Workers == 1..MaxPool

IdleWorker ==
  [pc |-> "idle", idx |-> -1, status |-> "NONE", fileSize |-> 0,
   readTotal |-> 0, fgood |-> FALSE, digest |-> -1, processedCount |-> 0, ops |-> {},
   probe |-> <<>>, events |-> <<>>]

IdleManager ==
  [pc |-> "idle", files |-> <<>>, hashType |-> "NONE", loadedFile |-> "",
   totalFiles |-> 0, numThreads |-> 0]

\* forced: post_progress was called with force = true (the 0% and the closing 100%)
FileProgress(pct, forced) == [type |-> "FileProgress", val |-> pct, forced |-> forced]
GlobalProgress(done, total) == [type |-> "GlobalProgress", val |-> done, total |-> total]
LogLine(text) == [type |-> "LogLine", val |-> text]
\* a summary that always reports a cancellation
TaskCompleteAlwaysCanceled(total, canceled) ==
  [type |-> "TaskComplete", totalFiles |-> total, wasCanceled |-> TRUE]

\* a summary that never reports the cancellation
TaskCompleteNeverCanceled(total, canceled) ==
  [type |-> "TaskComplete", totalFiles |-> total, wasCanceled |-> FALSE]

TaskComplete(total, canceled) ==
  [type |-> "TaskComplete", totalFiles |-> total, wasCanceled |-> canceled]
TaskError(text) == [type |-> "TaskError", text |-> text]
ManifestLog(name) == [type |-> "LogLine", text |-> name]

NoFileEvents == [i \in 0..(MaxFiles - 1) |-> <<>>]

RunEventsOf(type) == {i \in 1..Len(runEvents) : runEvents[i].type = type}

TerminalPosted == RunEventsOf("TaskComplete") \cup RunEventsOf("TaskError") # {}

InitRun ==
  /\ variant \in {"full", "light"}
  /\ g_isRunning = FALSE
  /\ g_stopRequested = FALSE
  /\ g_CountOk = 0 /\ g_CountCorrupted = 0 /\ g_CountMissing = 0
  /\ g_nextFileIndex = 0 /\ g_filesProcessedCount = 0
  /\ mgr = IdleManager
  /\ wk = [w \in Workers |-> IdleWorker]
  /\ disk = NoManifests
  /\ fileEvents = NoFileEvents
  /\ globalEvents = <<>>
  /\ runEvents = <<>>
  /\ cancelTriggered = FALSE
  /\ uiClosed = FALSE

\* the line parser's result before any line is parsed
NotParsed == [done |-> FALSE, skipped |-> FALSE, pushed |-> FALSE, hash |-> <<>>, path |-> <<>>]

\* NormalizeHash's results before it is called
NotNormalized == [done |-> FALSE, once |-> <<>>, twice |-> <<>>, other |-> <<>>,
                  otherOnce |-> <<>>, relation |-> ""]

\* the machines of the run model: hardware_concurrency() reports 0..MaxHw
AnyHardware == 0..MaxHw

\* the value of now in the specifications that do not follow the clock
Unobserved == -1

Callers == 1..MaxCallers

\* a thread outside post_progress
IdleCaller == [pc |-> "idle", force |-> FALSE, now |-> 0, elapsed |-> 0, calls |-> 0]

\* g_lastUIUpdate as constructed, g_uiMutex free, nobody inside post_progress
ThrottleIdle ==
  /\ g_lastUIUpdate = 0 /\ g_uiMutex = 0
  /\ callers = [t \in Callers |-> IdleCaller] /\ forwarded = <<>>

\* no CRC loop is followed
NoCrc == [kind |-> "none", data |-> <<>>, pos |-> 0, crc |-> [hi |-> 0, lo |-> 0],
          chunks |-> 0, done |-> FALSE]

\* 0.0 as a fraction
Zero == [num |-> 0, den |-> 1]

\* a SpeedBuffer as constructed, no AddSample made, GetSpeed not yet called
NoSamples == [samples |-> <<>>, added |-> 0, reported |-> Zero]

\* nothing was done under a set flag
NoneSinceStop == [fetches |-> [w \in 1..MaxPool |-> 0], outcomes |-> 0]

\* static uint32_t crc32c_table[256]; static bool table_initialized = false; and no
\* thread inside ComputeCRC32C
NoTable ==
  [table |-> [n \in 0..MaxEntry |-> [hi |-> 0, lo |-> 0]],
   table_initialized |-> FALSE,
   threads |-> [t \in 1..MaxCallers |->
                  [pc |-> "out", i |-> 0, stores |-> <<>>, read |-> <<>>]]]

ComputeIdle ==
  /\ crcRun = NoCrc /\ speed = NoSamples /\ sinceStop = NoneSinceStop
  /\ crc32c = NoTable

\* no line is being parsed and no digest normalised
PureIdle ==
  /\ line = <<>> /\ parsed = NotParsed /\ h = <<>> /\ normalized = NotNormalized
  /\ hardware = AnyHardware /\ longest = MaxChunks
  /\ now = Unobserved /\ ThrottleIdle /\ faults = {} /\ ComputeIdle

Init == InitRun /\ PureIdle

(***************************************************************************)
(* The window procedure (UI thread).                                       *)
(***************************************************************************)
\* a WM_COMMAND that starts a ManagerThread whatever g_isRunning is
UIStartUnguarded ==
  /\ ~uiClosed
  /\ g_isRunning' = TRUE
  /\ mgr' = [IdleManager EXCEPT !.pc = "m_reset"]
  /\ fileEvents' = NoFileEvents
  /\ globalEvents' = <<>>
  /\ runEvents' = <<>>
  /\ cancelTriggered' = FALSE
  /\ UNCHANGED <<variant, g_stopRequested, counters, g_nextFileIndex,
                 g_filesProcessedCount, wk, disk, uiClosed, pure>>

\* WM_COMMAND, button 1, while no run is active: start a run
UIStart ==
  /\ ~uiClosed
  /\ ~g_isRunning
  /\ g_isRunning' = TRUE
  /\ mgr' = [IdleManager EXCEPT !.pc = "m_reset"]
  /\ fileEvents' = NoFileEvents
  /\ globalEvents' = <<>>
  /\ runEvents' = <<>>
  /\ cancelTriggered' = FALSE
  /\ UNCHANGED <<variant, g_stopRequested, counters, g_nextFileIndex,
                 g_filesProcessedCount, wk, disk, uiClosed, pure>>

\* WM_COMMAND, button 1, while a run is active: request cancellation
UIStop ==
  /\ ~uiClosed
  /\ g_isRunning
  /\ g_stopRequested' = TRUE
  /\ cancelTriggered' = (cancelTriggered \/ ~TerminalPosted)
  /\ UNCHANGED <<variant, g_isRunning, counters, g_nextFileIndex, g_filesProcessedCount,
                 mgr, wk, disk, posts, uiClosed, pure>>

\* WM_CLOSE or button 2 while no run is active: DestroyWindow, then WM_DESTROY
UIExit ==
  /\ ~uiClosed
  /\ ~g_isRunning
  /\ g_stopRequested' = TRUE
  /\ uiClosed' = TRUE
  /\ UNCHANGED <<variant, g_isRunning, counters, g_nextFileIndex, g_filesProcessedCount,
                 mgr, wk, disk, posts, cancelTriggered, pure>>

(***************************************************************************)
(* ManagerThread.                                                          *)
(***************************************************************************)
\* a ManagerThread that leaves the counters and the flag of the run before
ManagerResetKeeps ==
  /\ mgr.pc = "m_reset"
  /\ g_nextFileIndex' = 0 /\ g_filesProcessedCount' = 0
  /\ mgr' = [mgr EXCEPT !.pc = "m_load"]
  /\ sinceStop' = NoneSinceStop
  /\ UNCHANGED <<variant, g_isRunning, g_stopRequested, counters, wk, disk, posts,
                 cancelTriggered, uiClosed, given, throttle, g_lastUIUpdate>>

\* the resets at the head of ManagerThread
ManagerReset ==
  /\ mgr.pc = "m_reset"
  /\ g_CountOk' = 0 /\ g_CountCorrupted' = 0 /\ g_CountMissing' = 0
  /\ g_nextFileIndex' = 0 /\ g_filesProcessedCount' = 0
  /\ g_stopRequested' = FALSE
  /\ mgr' = [mgr EXCEPT !.pc = "m_load"]
  /\ sinceStop' = NoneSinceStop
  /\ UNCHANGED <<variant, g_isRunning, wk, disk, posts, cancelTriggered,
                 uiClosed, given, throttle, g_lastUIUpdate>>

\* a ManagerThread without its totalFiles == 0 check
LoadOutcomeNoEmptyCheck(sel) ==
  IF sel.loadedFile = ""
  THEN [failed |-> TRUE, run |-> <<TaskError("Error: No manifest found.")>>,
        global |-> <<>>]
  ELSE [failed |-> FALSE, run |-> <<ManifestLog(sel.loadedFile)>>, global |-> <<0>>]

\* ManagerThread between the candidate loop and the start of the pool: the two fatal
\* checks and the messages posted (run: its own, global: the first GlobalProgress)
LoadOutcome(sel) ==
  IF sel.loadedFile = ""
  THEN [failed |-> TRUE, run |-> <<TaskError("Error: No manifest found.")>>,
        global |-> <<>>]
  ELSE IF Len(sel.files) = 0
  THEN [failed |-> TRUE,
        run |-> <<ManifestLog(sel.loadedFile), TaskError("Error: Empty manifest.")>>,
        global |-> <<>>]
  ELSE [failed |-> FALSE, run |-> <<ManifestLog(sel.loadedFile)>>, global |-> <<0>>]

\* the candidate loop, the two fatal checks and the first GlobalProgress
ManagerLoad(disks) ==
  /\ mgr.pc = "m_load"
  /\ \E fs \in disks :
       LET sel == SelectManifest(variant, fs)
           out == LoadOutcome(sel)
       IN /\ disk' = fs
          /\ runEvents' = runEvents \o out.run
          /\ globalEvents' = globalEvents \o out.global
          /\ mgr' = [mgr EXCEPT
                       !.pc = IF out.failed THEN "m_clear" ELSE "m_spawn",
                       !.files = sel.files, !.hashType = sel.hashType,
                       !.loadedFile = sel.loadedFile, !.totalFiles = Len(sel.files)]
  /\ UNCHANGED <<variant, g_isRunning, g_stopRequested, counters, g_nextFileIndex,
                 g_filesProcessedCount, wk, fileEvents, cancelTriggered, uiClosed,
                 pure>>

\* g_workers.clear() and the emplace_back loop
ManagerSpawn ==
  /\ mgr.pc = "m_spawn"
  /\ \E hardware_concurrency \in hardware :
       LET n == NumThreads(hardware_concurrency)
       IN /\ mgr' = [mgr EXCEPT !.pc = "m_join", !.numThreads = n]
          /\ wk' = [w \in Workers |->
                      IF w <= n THEN [IdleWorker EXCEPT !.pc = "head"] ELSE IdleWorker]
  /\ UNCHANGED <<variant, g_isRunning, g_stopRequested, counters, g_nextFileIndex,
                 g_filesProcessedCount, disk, posts, cancelTriggered, uiClosed,
                 pure>>

\* a ManagerThread that does not wait for its workers
NotJoined == TRUE

\* for (auto& t : g_workers) if (t.joinable()) t.join(): every HashWorker has returned
Joined == \A w \in Workers : wk[w].pc \in {"idle", "exited"}

\* the join loop, g_workers.clear() and the WM_APP_TASK_COMPLETE post
ManagerComplete ==
  /\ mgr.pc = "m_join"
  /\ Joined
  /\ wk' = [w \in Workers |-> IdleWorker]
  /\ runEvents' = Append(runEvents, TaskComplete(mgr.totalFiles, g_stopRequested))
  /\ mgr' = [mgr EXCEPT !.pc = "m_clear"]
  /\ UNCHANGED <<variant, g_isRunning, g_stopRequested, counters, g_nextFileIndex,
                 g_filesProcessedCount, disk, fileEvents, globalEvents, cancelTriggered,
                 uiClosed, pure>>

\* g_isRunning = false, the last statement on each of the three paths
ManagerClear ==
  /\ mgr.pc = "m_clear"
  /\ g_isRunning' = FALSE
  /\ mgr' = IdleManager
  /\ UNCHANGED <<variant, g_stopRequested, counters, g_nextFileIndex,
                 g_filesProcessedCount, wk, disk, posts, cancelTriggered,
                 uiClosed, pure>>

(***************************************************************************)
(* HashWorker and VerifyFile.                                              *)
(***************************************************************************)
\* a fetch_add whose store is lost
FetchAddLost(v) == v

\* the value an atomic holds after fetch_add(1) found it at v
FetchAdd(v) == v + 1

\* the per-entry record of a message about entry idx
NoteFile(idx, what) == fileEvents' = [fileEvents EXCEPT ![idx] = Append(@, what)]

\* a HashWorker whose loop does not test g_stopRequested
WorkerHeadIgnoresStop(w) ==
  /\ wk[w].pc = "head"
  /\ wk' = [wk EXCEPT ![w] = [IdleWorker EXCEPT !.pc = "claim"]]
  /\ UNCHANGED <<variant, g_isRunning, g_stopRequested, counters, g_nextFileIndex,
                 g_filesProcessedCount, mgr, disk, posts, cancelTriggered,
                 uiClosed, pure>>

\* while (!g_stopRequested)
WorkerHead(w) ==
  /\ wk[w].pc = "head"
  /\ wk' = [wk EXCEPT ![w] = IF g_stopRequested THEN [IdleWorker EXCEPT !.pc = "exited"]
                             ELSE [IdleWorker EXCEPT !.pc = "claim"]]
  /\ UNCHANGED <<variant, g_isRunning, g_stopRequested, counters, g_nextFileIndex,
                 g_filesProcessedCount, mgr, disk, posts, cancelTriggered,
                 uiClosed, pure>>

\* a HashWorker that goes on with its loop after an index at or beyond totalFiles
WorkerClaimContinues(w) ==
  /\ wk[w].pc = "claim"
  /\ g_nextFileIndex' = FetchAdd(g_nextFileIndex)
  /\ wk' = [wk EXCEPT ![w] = IF g_nextFileIndex >= mgr.totalFiles
                             THEN [IdleWorker EXCEPT !.pc = "head"]
                             ELSE [IdleWorker EXCEPT !.pc = "v_start",
                                                     !.idx = g_nextFileIndex]]
  /\ sinceStop' = IF g_stopRequested THEN [sinceStop EXCEPT !.fetches[w] = @ + 1]
                  ELSE sinceStop
  /\ UNCHANGED <<variant, g_isRunning, g_stopRequested, counters,
                 g_filesProcessedCount, mgr, disk, posts, cancelTriggered,
                 uiClosed, given, throttle, g_lastUIUpdate>>

\* currentIndex = g_nextFileIndex.fetch_add(1); if (currentIndex >= totalFiles) break
WorkerClaim(w) ==
  /\ wk[w].pc = "claim"
  /\ g_nextFileIndex' = FetchAdd(g_nextFileIndex)
  /\ wk' = [wk EXCEPT ![w] = IF g_nextFileIndex >= mgr.totalFiles
                             THEN [IdleWorker EXCEPT !.pc = "exited"]
                             ELSE [IdleWorker EXCEPT !.pc = "v_start",
                                                     !.idx = g_nextFileIndex]]
  /\ sinceStop' = IF g_stopRequested THEN [sinceStop EXCEPT !.fetches[w] = @ + 1]
                  ELSE sinceStop
  /\ UNCHANGED <<variant, g_isRunning, g_stopRequested, counters,
                 g_filesProcessedCount, mgr, disk, posts, cancelTriggered,
                 uiClosed, given, throttle, g_lastUIUpdate>>

\* VerifyFile: post_progress(0, 0.0, true)
VerifyStart(w) ==
  /\ wk[w].pc = "v_start"
  /\ NoteFile(wk[w].idx, "start")
  /\ wk' = [wk EXCEPT ![w].pc = "v_probe", ![w].events = Append(@, FileProgress(0, TRUE))]
  /\ UNCHANGED <<variant, g_isRunning, g_stopRequested, counters, g_nextFileIndex,
                 g_filesProcessedCount, mgr, disk, globalEvents, runEvents,
                 cancelTriggered, uiClosed, pure>>

\* a VerifyFile that books a canceled file as corrupted
CounterDeltaCanceled(status) ==
  CASE status = "OK"         -> <<1, 0, 0>>
    [] status = "MISSING"    -> <<0, 0, 1>>
    [] status = "ERROR_UNSUPPORTED_HASH" -> <<0, 0, 0>>
    [] OTHER                 -> <<0, 1, 0>>

\* the counter VerifyFile increments on the path that returns status: <<ok, corrupted, missing>>
CounterDelta(status) ==
  CASE status = "OK"         -> <<1, 0, 0>>
    [] status = "CORRUPTED"  -> <<0, 1, 0>>
    [] status = "ERROR_SIZE" -> <<0, 1, 0>>
    [] status = "ERROR_OPEN" -> <<0, 1, 0>>
    [] status = "MISSING"    -> <<0, 0, 1>>
    [] OTHER                 -> <<0, 0, 0>>

Count(status) ==
  /\ g_CountOk' = g_CountOk + CounterDelta(status)[1]
  /\ g_CountCorrupted' = g_CountCorrupted + CounterDelta(status)[2]
  /\ g_CountMissing' = g_CountMissing + CounterDelta(status)[3]

\* a VerifyFile that asks for the size before it asks whether the file exists
ProbeResultSizeFirst(v, hashType, exists, sizeOk, openOk) ==
  IF ~sizeOk THEN [status |-> "ERROR_SIZE", ops |-> {"size"}]
  ELSE IF ~exists THEN [status |-> "MISSING", ops |-> {"size", "exists"}]
  ELSE IF ~openOk THEN [status |-> "ERROR_OPEN", ops |-> {"exists", "size", "open"}]
  ELSE IF hashType \notin SupportedKinds(v)
  THEN [status |-> "ERROR_UNSUPPORTED_HASH", ops |-> {"exists", "size", "open"}]
  ELSE [status |-> "", ops |-> {"exists", "size", "open"}]

\* where VerifyFile returns before its read loop: the file-system calls made so far
\* (ops) and the status, "" when the switch enters a read loop
ProbeResult(v, hashType, exists, sizeOk, openOk) ==
  IF ~exists THEN [status |-> "MISSING", ops |-> {"exists"}]
  ELSE IF ~sizeOk THEN [status |-> "ERROR_SIZE", ops |-> {"exists", "size"}]
  ELSE IF ~openOk THEN [status |-> "ERROR_OPEN", ops |-> {"exists", "size", "open"}]
  ELSE IF hashType \notin SupportedKinds(v)
  THEN [status |-> "ERROR_UNSUPPORTED_HASH", ops |-> {"exists", "size", "open"}]
  ELSE [status |-> "", ops |-> {"exists", "size", "open"}]

\* an exception leaves VerifyFile: fs::exists(item.path) throws, or the switch is
\* entered and std::vector<char> buffer(BUF_SIZE) throws.  The one try block of
\* VerifyFile encloses fs::file_size only
Throws(fault, status) == fault = "exists" \/ (fault = "buffer" /\ status = "")

\* std::terminate: the exception left the thread function of worker w, and the
\* process ends with all its threads
Terminated(w) ==
  /\ wk' = [v \in Workers |-> [IdleWorker EXCEPT !.pc = "terminated", !.idx = wk[v].idx]]
  /\ mgr' = [mgr EXCEPT !.pc = "terminated"]
  /\ UNCHANGED counters

\* fs::exists, fs::file_size, the open, and the switch (hashType).  The file system
\* answers each call (probe: would the file be found, sized, opened; an absent file
\* can be neither sized nor opened); sizes count chunks of BUF_SIZE bytes
VerifyProbe(w) ==
  /\ wk[w].pc = "v_probe"
  /\ \E exists \in BOOLEAN, sizeOk \in BOOLEAN, openOk \in BOOLEAN,
        size \in 0..longest, fault \in {"none"} \cup faults :
       LET r == ProbeResult(variant, mgr.hashType, exists, sizeOk, openOk)
       IN /\ exists \/ (~sizeOk /\ ~openOk)
          /\ ("size" \in r.ops /\ sizeOk) \/ size = 0
          /\ IF Throws(fault, r.status)
             THEN Terminated(w)
             ELSE /\ Count(r.status)
                  /\ wk' = [wk EXCEPT ![w] =
                        [@ EXCEPT !.pc = IF r.status = "" THEN "v_read" ELSE "w_count",
                                  !.status = IF r.status = "" THEN "NONE" ELSE r.status,
                                  !.ops = r.ops,
                                  !.probe = <<exists, sizeOk, openOk>>,
                                  !.fileSize = size,
                                  !.fgood = (r.status = "")]]
                  /\ UNCHANGED mgr
  /\ UNCHANGED <<variant, g_isRunning, g_stopRequested, g_nextFileIndex,
                 g_filesProcessedCount, disk, posts, cancelTriggered,
                 uiClosed, pure>>

\* while (f && !g_stopRequested)
LoopContinues(fgood, stop) == fgood /\ ~stop

UI_UPDATE_INTERVAL_MS(v) == IF v = "full" THEN 100 ELSE 500

\* what ShouldUpdateUI can return: now - g_lastUIUpdate >= UI_UPDATE_INTERVAL_MS, and
\* either answer where the clock is not followed
ShouldUpdateUI ==
  IF now = Unobserved THEN BOOLEAN
  ELSE {now - g_lastUIUpdate >= UI_UPDATE_INTERVAL_MS(variant)}

\* g_lastUIUpdate after a ShouldUpdateUI that returned granted
LastUIUpdate(granted) ==
  IF granted /\ now # Unobserved THEN now ELSE g_lastUIUpdate

\* one pass of the read loop: the loop test, f.read (gcount is 0 at the end of the
\* file, which has at most longest chunks), and the throttled post_progress, which
\* calls ShouldUpdateUI and posts when that returns true
VerifyRead(w) ==
  /\ wk[w].pc = "v_read"
  /\ IF ~LoopContinues(wk[w].fgood, g_stopRequested)
     THEN /\ wk' = [wk EXCEPT ![w].pc = "v_finish"]
          /\ UNCHANGED g_lastUIUpdate
     ELSE \E gcount \in 0..1, eof \in BOOLEAN :
          \E shouldUpdateUI \in (IF gcount = 0 THEN {FALSE} ELSE ShouldUpdateUI) :
            /\ gcount = 1 => wk[w].readTotal < longest
            /\ gcount = 0 => eof
            /\ g_lastUIUpdate' = LastUIUpdate(shouldUpdateUI)
            /\ IF gcount = 0
               THEN wk' = [wk EXCEPT ![w].pc = "v_finish", ![w].fgood = FALSE,
                                     ![w].ops = @ \cup {"read"}]
               ELSE wk' = [wk EXCEPT
                     ![w].readTotal = @ + 1,
                     ![w].fgood = ~eof,
                     ![w].ops = @ \cup {"read"},
                     ![w].events =
                        IF shouldUpdateUI
                        THEN Append(@, FileProgress(Percent(wk[w].readTotal + 1,
                                                            wk[w].fileSize), FALSE))
                        ELSE @]
  /\ UNCHANGED <<variant, g_isRunning, g_stopRequested, counters, g_nextFileIndex,
                 g_filesProcessedCount, mgr, disk, posts, cancelTriggered,
                 uiClosed, inputs, throttle>>

\* after the loop: if (g_stopRequested) return CANCELED (and HashWorker breaks), else
\* the digest, the comparison and the counter
VerifyFinish(w) ==
  /\ wk[w].pc = "v_finish"
  /\ IF g_stopRequested
     THEN /\ wk' = [wk EXCEPT ![w] = [IdleWorker EXCEPT !.pc = "exited"]]
          /\ Count("CANCELED")
     ELSE \E d \in ContentDigests :
            LET status == CompareStatus(ResultHash(mgr.hashType, d),
                                        mgr.files[wk[w].idx + 1].expectedHash)
            IN /\ wk' = [wk EXCEPT ![w].pc = "v_done", ![w].status = status,
                                   ![w].digest = d]
               /\ Count(status)
  /\ UNCHANGED <<variant, g_isRunning, g_stopRequested, g_nextFileIndex,
                 g_filesProcessedCount, mgr, disk, posts, cancelTriggered,
                 uiClosed, pure>>

\* a closing post_progress(100, speed) that leaves force at its default
VerifyDoneThrottled(w) ==
  /\ wk[w].pc = "v_done"
  /\ \E shouldUpdateUI \in ShouldUpdateUI :
       /\ g_lastUIUpdate' = LastUIUpdate(shouldUpdateUI)
       /\ wk' = [wk EXCEPT ![w].pc = "w_count",
                           ![w].events = IF shouldUpdateUI
                                         THEN Append(@, FileProgress(100, FALSE))
                                         ELSE @]
  /\ UNCHANGED <<variant, g_isRunning, g_stopRequested, counters, g_nextFileIndex,
                 g_filesProcessedCount, mgr, disk, posts, cancelTriggered,
                 uiClosed, inputs, throttle>>

\* post_progress(100, speed, true); return status
VerifyDone(w) ==
  /\ wk[w].pc = "v_done"
  /\ wk' = [wk EXCEPT ![w].pc = "w_count", ![w].events = Append(@, FileProgress(100, TRUE))]
  /\ UNCHANGED <<variant, g_isRunning, g_stopRequested, counters, g_nextFileIndex,
                 g_filesProcessedCount, mgr, disk, posts, cancelTriggered,
                 uiClosed, pure>>

\* a processedCount without the + 1
ProcessedCountStale(previous) == previous

\* fetch_add(1) + 1, where fetch_add returned previous
ProcessedCount(previous) == previous + 1

\* processedCount = g_filesProcessedCount.fetch_add(1) + 1
WorkerCount(w) ==
  /\ wk[w].pc = "w_count"
  /\ g_filesProcessedCount' = FetchAdd(g_filesProcessedCount)
  /\ wk' = [wk EXCEPT ![w] = [IdleWorker EXCEPT
                                 !.pc = "w_global", !.idx = wk[w].idx,
                                 !.status = wk[w].status, !.events = wk[w].events,
                                 !.processedCount =
                                    ProcessedCount(g_filesProcessedCount)]]
  /\ sinceStop' = IF g_stopRequested THEN [sinceStop EXCEPT !.outcomes = @ + 1]
                  ELSE sinceStop
  /\ UNCHANGED <<variant, g_isRunning, g_stopRequested, counters, g_nextFileIndex, mgr,
                 disk, posts, cancelTriggered, uiClosed, given, throttle,
                 g_lastUIUpdate>>

\* PostMessage(WM_APP_UPDATE_GLOBAL_PROGRESS, processedCount, totalFiles)
WorkerPostGlobal(w) ==
  /\ wk[w].pc = "w_global"
  /\ globalEvents' = Append(globalEvents, wk[w].processedCount)
  /\ wk' = [wk EXCEPT ![w].pc = "w_log",
                      ![w].events = Append(@, GlobalProgress(wk[w].processedCount,
                                                                mgr.totalFiles))]
  /\ UNCHANGED <<variant, g_isRunning, g_stopRequested, counters, g_nextFileIndex,
                 g_filesProcessedCount, mgr, disk, fileEvents, runEvents,
                 cancelTriggered, uiClosed, pure>>

\* PostMessage(WM_APP_APPEND_LOG, ...) with the entry's log line
WorkerPostLog(w) ==
  /\ wk[w].pc = "w_log"
  /\ NoteFile(wk[w].idx, "log")
  /\ wk' = [wk EXCEPT ![w] = [IdleWorker EXCEPT
                                 !.pc = "head", !.idx = wk[w].idx,
                                 !.events = Append(wk[w].events,
                                                   LogLine(StatusStr(wk[w].status)))]]
  /\ UNCHANGED <<variant, g_isRunning, g_stopRequested, counters, g_nextFileIndex,
                 g_filesProcessedCount, mgr, disk, globalEvents, runEvents,
                 cancelTriggered, uiClosed, pure>>

Next ==
  \/ UIStart
  \/ UIStop
  \/ UIExit
  \/ ManagerReset
  \/ ManagerLoad(RunDisks(variant))
  \/ ManagerSpawn
  \/ ManagerComplete
  \/ ManagerClear
  \/ \E w \in Workers : WorkerHead(w)
  \/ \E w \in Workers : WorkerClaim(w)
  \/ \E w \in Workers : VerifyStart(w)
  \/ \E w \in Workers : VerifyProbe(w)
  \/ \E w \in Workers : VerifyRead(w)
  \/ \E w \in Workers : VerifyFinish(w)
  \/ \E w \in Workers : VerifyDone(w)
  \/ \E w \in Workers : WorkerCount(w)
  \/ \E w \in Workers : WorkerPostGlobal(w)
  \/ \E w \in Workers : WorkerPostLog(w)

Spec == Init /\ [][Next]_vars

(***************************************************************************)
(* The candidate loop alone, over every combination of candidates on disk: *)
(* ManagerThread stands at the loop, after its resets.                     *)
(***************************************************************************)
AtCandidateLoop ==
  /\ variant \in {"full", "light"}
  /\ g_isRunning = TRUE
  /\ g_stopRequested = FALSE
  /\ g_CountOk = 0 /\ g_CountCorrupted = 0 /\ g_CountMissing = 0
  /\ g_nextFileIndex = 0 /\ g_filesProcessedCount = 0
  /\ mgr = [IdleManager EXCEPT !.pc = "m_load"]
  /\ wk = [w \in Workers |-> IdleWorker]
  /\ disk = NoManifests
  /\ fileEvents = NoFileEvents
  /\ globalEvents = <<>>
  /\ runEvents = <<>>
  /\ cancelTriggered = FALSE
  /\ uiClosed = FALSE

InitLoad == AtCandidateLoop /\ PureIdle

NextLoad == ManagerLoad(LoadDisks(variant))

SpecLoad == InitLoad /\ [][NextLoad]_vars

(***************************************************************************)
(* LoadManifest on the first candidate, over manifests of up to MaxLines   *)
(* lines: ManagerThread stands at the candidate loop.                      *)
(***************************************************************************)
InitManifest == AtCandidateLoop /\ PureIdle

NextManifest == ManagerLoad(ManifestDisks(variant))

SpecManifest == InitManifest /\ [][NextManifest]_vars

(***************************************************************************)
(* The pool alone, on machines that report 0..MaxHardware: ManagerThread   *)
(* loads a manifest of one entry, starts the pool, joins it and returns.   *)
(***************************************************************************)
PoolDisks(v) ==
  {[NoManifests EXCEPT
      ![Candidates(v)[1]] = [exists |-> TRUE, openable |-> TRUE, lines |-> ManifestOf(1)]]}

InitPool ==
  /\ AtCandidateLoop
  /\ line = <<>> /\ parsed = NotParsed /\ h = <<>> /\ normalized = NotNormalized
  /\ hardware \in {{n} : n \in 0..MaxHardware}
  /\ longest = MaxReads
  /\ now = Unobserved /\ ThrottleIdle /\ faults = {} /\ ComputeIdle

NextPool ==
  \/ ManagerLoad(PoolDisks(variant))
  \/ ManagerSpawn
  \/ ManagerComplete
  \/ ManagerClear
  \/ \E w \in Workers : WorkerHead(w)
  \/ \E w \in Workers : WorkerClaim(w)
  \/ \E w \in Workers : VerifyStart(w)
  \/ \E w \in Workers : VerifyProbe(w)
  \/ \E w \in Workers : VerifyRead(w)
  \/ \E w \in Workers : VerifyFinish(w)
  \/ \E w \in Workers : VerifyDone(w)
  \/ \E w \in Workers : WorkerCount(w)
  \/ \E w \in Workers : WorkerPostGlobal(w)
  \/ \E w \in Workers : WorkerPostLog(w)

SpecPool == InitPool /\ [][NextPool]_vars

(***************************************************************************)
(* One worker under the steady clock: ManagerThread loads a manifest of    *)
(* one entry and starts a pool of one worker, whose ShouldUpdateUI reads   *)
(* the clock.                                                              *)
(***************************************************************************)
InitTimed ==
  /\ AtCandidateLoop
  /\ line = <<>> /\ parsed = NotParsed /\ h = <<>> /\ normalized = NotNormalized
  /\ hardware = {1}
  /\ longest = MaxReads
  /\ now = 0 /\ ThrottleIdle /\ faults = {} /\ ComputeIdle

\* 100 ms pass
Tick ==
  /\ now # Unobserved
  /\ now + 100 <= MaxIntervals * UI_UPDATE_INTERVAL_MS(variant)
  /\ now' = now + 100
  /\ UNCHANGED <<variant, g_isRunning, g_stopRequested, counters, g_nextFileIndex,
                 g_filesProcessedCount, mgr, wk, disk, posts, cancelTriggered,
                 uiClosed, inputs, g_lastUIUpdate, g_uiMutex, callers, forwarded>>

NextTimed ==
  \/ Tick
  \/ ManagerLoad(PoolDisks(variant))
  \/ ManagerSpawn
  \/ ManagerComplete
  \/ ManagerClear
  \/ \E w \in Workers : WorkerHead(w)
  \/ \E w \in Workers : WorkerClaim(w)
  \/ \E w \in Workers : VerifyStart(w)
  \/ \E w \in Workers : VerifyProbe(w)
  \/ \E w \in Workers : VerifyRead(w)
  \/ \E w \in Workers : VerifyFinish(w)
  \/ \E w \in Workers : VerifyDone(w)
  \/ \E w \in Workers : WorkerCount(w)
  \/ \E w \in Workers : WorkerPostGlobal(w)
  \/ \E w \in Workers : WorkerPostLog(w)

SpecTimed == InitTimed /\ [][NextTimed]_vars

(***************************************************************************)
(* post_progress alone, called side by side by MaxCallers threads under    *)
(* the steady clock, MaxCalls times each: ShouldUpdateUI statement by      *)
(* statement, and the PostMessage that follows its return.                 *)
(***************************************************************************)
InitThrottle ==
  /\ InitRun
  /\ line = <<>> /\ parsed = NotParsed /\ h = <<>> /\ normalized = NotNormalized
  /\ hardware = AnyHardware /\ longest = MaxChunks
  /\ now = 0 /\ ThrottleIdle /\ faults = {} /\ ComputeIdle

\* a lock_guard that does not wait
MutexIgnored(owner) == TRUE

\* std::lock_guard<std::mutex> lock(g_uiMutex) returns when no thread holds the mutex
MutexFree(owner) == owner = 0

\* post_progress(percentage, speed, force): if (!force && !ShouldUpdateUI()) return
PostProgress(t) ==
  /\ callers[t].pc = "idle"
  /\ callers[t].calls < MaxCalls
  /\ \E force \in BOOLEAN :
       callers' = [callers EXCEPT ![t] = [@ EXCEPT !.pc = IF force THEN "post" ELSE "lock",
                                                   !.force = force,
                                                   !.calls = @ + 1]]
  /\ UNCHANGED <<variant, g_isRunning, g_stopRequested, counters, g_nextFileIndex,
                 g_filesProcessedCount, mgr, wk, disk, posts, cancelTriggered,
                 uiClosed, inputs, now, g_lastUIUpdate, g_uiMutex, forwarded>>

\* ShouldUpdateUI: the lock_guard, now = steady_clock::now() and elapsed
ShouldUpdateUILock(t) ==
  /\ callers[t].pc = "lock"
  /\ MutexFree(g_uiMutex)
  /\ g_uiMutex' = t
  /\ callers' = [callers EXCEPT ![t] = [@ EXCEPT !.pc = "test", !.now = now,
                                                 !.elapsed = now - g_lastUIUpdate]]
  /\ UNCHANGED <<variant, g_isRunning, g_stopRequested, counters, g_nextFileIndex,
                 g_filesProcessedCount, mgr, wk, disk, posts, cancelTriggered,
                 uiClosed, inputs, now, g_lastUIUpdate, forwarded>>

\* ShouldUpdateUI: if (elapsed >= UI_UPDATE_INTERVAL_MS) { g_lastUIUpdate = now;
\* return true; } return false; the lock_guard releases the mutex, and post_progress
\* returns when the answer is false
ShouldUpdateUITest(t) ==
  /\ callers[t].pc = "test"
  /\ g_uiMutex' = 0
  /\ IF callers[t].elapsed >= UI_UPDATE_INTERVAL_MS(variant)
     THEN /\ g_lastUIUpdate' = callers[t].now
          /\ callers' = [callers EXCEPT ![t].pc = "post"]
     ELSE /\ UNCHANGED g_lastUIUpdate
          /\ callers' = [callers EXCEPT ![t] = [IdleCaller EXCEPT !.calls = callers[t].calls]]
  /\ UNCHANGED <<variant, g_isRunning, g_stopRequested, counters, g_nextFileIndex,
                 g_filesProcessedCount, mgr, wk, disk, posts, cancelTriggered,
                 uiClosed, inputs, now, forwarded>>

\* PostMessage(g_hMainWindow, WM_APP_UPDATE_FILE_PROGRESS, ...): the message, with the
\* clock reading that granted it and the time it is posted
PostFileProgress(t) ==
  /\ callers[t].pc = "post"
  /\ forwarded' = Append(forwarded,
                         [by |-> t, forced |-> callers[t].force,
                          granted |-> IF callers[t].force THEN now ELSE callers[t].now,
                          at |-> now])
  /\ callers' = [callers EXCEPT ![t] = [IdleCaller EXCEPT !.calls = callers[t].calls]]
  /\ UNCHANGED <<variant, g_isRunning, g_stopRequested, counters, g_nextFileIndex,
                 g_filesProcessedCount, mgr, wk, disk, posts, cancelTriggered,
                 uiClosed, inputs, now, g_lastUIUpdate, g_uiMutex>>

NextThrottle ==
  \/ Tick
  \/ \E t \in Callers : PostProgress(t)
  \/ \E t \in Callers : ShouldUpdateUILock(t)
  \/ \E t \in Callers : ShouldUpdateUITest(t)
  \/ \E t \in Callers : PostFileProgress(t)

SpecThrottle == InitThrottle /\ [][NextThrottle]_vars

(***************************************************************************)
(* The pool of two workers on a machine where fs::exists and the           *)
(* allocation of the read buffer can throw: ManagerThread loads a manifest *)
(* of MaxFiles entries.                                                    *)
(***************************************************************************)
FaultDisks(v) ==
  {[NoManifests EXCEPT
      ![Candidates(v)[1]] = [exists |-> TRUE, openable |-> TRUE,
                             lines |-> ManifestOf(MaxFiles)]]}

InitFaults ==
  /\ AtCandidateLoop
  /\ line = <<>> /\ parsed = NotParsed /\ h = <<>> /\ normalized = NotNormalized
  /\ hardware = {2}
  /\ longest = MaxChunks
  /\ now = Unobserved /\ ThrottleIdle /\ faults = {"exists", "buffer"} /\ ComputeIdle

NextFaults ==
  \/ ManagerLoad(FaultDisks(variant))
  \/ ManagerSpawn
  \/ ManagerComplete
  \/ ManagerClear
  \/ \E w \in Workers : WorkerHead(w)
  \/ \E w \in Workers : WorkerClaim(w)
  \/ \E w \in Workers : VerifyStart(w)
  \/ \E w \in Workers : VerifyProbe(w)
  \/ \E w \in Workers : VerifyRead(w)
  \/ \E w \in Workers : VerifyFinish(w)
  \/ \E w \in Workers : VerifyDone(w)
  \/ \E w \in Workers : WorkerCount(w)
  \/ \E w \in Workers : WorkerPostGlobal(w)
  \/ \E w \in Workers : WorkerPostLog(w)

SpecFaults == InitFaults /\ [][NextFaults]_vars

(***************************************************************************)
(* NormalizeHash alone, as VerifyFile calls it on a digest string: on      *)
(* every string h of up to MaxHashLen characters, on its own result, and   *)
(* on a string that differs from h in letter case only or, when h holds    *)
(* hex digits only, by a "0x" in front or by leading zeros.                *)
(***************************************************************************)
HashChars == {"0", "1", "a", "A", "x", "X"}

RECURSIVE HashStrings(_)
HashStrings(n) ==
  IF n = 0 THEN {<<>>}
  ELSE LET shorter == HashStrings(n - 1)
       IN shorter \cup {Append(t, c) : t \in {u \in shorter : Len(u) = n - 1}, c \in HashChars}

\* the two cases of the letters of the model
OtherCase(c) ==
  CASE c = "a" -> "A"
    [] c = "A" -> "a"
    [] c = "x" -> "X"
    [] c = "X" -> "x"
    [] OTHER   -> c

\* the strings that differ from s in letter case only
CaseVariants(s) ==
  {[i \in 1..Len(s) |-> IF i \in flip THEN OtherCase(s[i]) ELSE s[i]] :
     flip \in SUBSET (1..Len(s))}

HexOnly(s) == \A i \in 1..Len(s) : s[i] \notin {"x", "X"}

\* s behind a "0x", a "0X" or one or two zeros
PrefixVariants(s) ==
  {<<"0", "x">> \o s, <<"0", "X">> \o s, <<"0">> \o s, <<"0", "0">> \o s}

InitNormalize ==
  /\ AtCandidateLoop
  /\ line = <<>> /\ parsed = NotParsed
  /\ h \in HashStrings(MaxHashLen) /\ normalized = NotNormalized
  /\ hardware = AnyHardware /\ longest = MaxChunks
  /\ now = Unobserved /\ ThrottleIdle /\ faults = {} /\ ComputeIdle

\* NormalizeHash(h), NormalizeHash of that, and NormalizeHash of a variant of h
Normalize ==
  /\ ~normalized.done
  /\ \E relation \in {"case", "prefix"} :
       \E other \in (IF relation = "case" THEN CaseVariants(h)
                     ELSE IF HexOnly(h) THEN PrefixVariants(h) ELSE {}) :
         normalized' = [done      |-> TRUE,
                        once      |-> NormalizeHash(h),
                        twice     |-> NormalizeHash(NormalizeHash(h)),
                        other     |-> other,
                        otherOnce |-> NormalizeHash(other),
                        relation  |-> relation]
  /\ UNCHANGED <<variant, g_isRunning, g_stopRequested, counters, g_nextFileIndex,
                 g_filesProcessedCount, mgr, wk, disk, posts, cancelTriggered,
                 uiClosed, line, parsed, h, hardware, longest, faults,
                 crcRun, speed, crc32c, sinceStop, throttle, g_lastUIUpdate>>

NextNormalize == Normalize

SpecNormalize == InitNormalize /\ [][NextNormalize]_vars

(***************************************************************************)
(* The line loop of LoadManifest alone, on a manifest of one line, over    *)
(* every line of up to MaxLineLen characters.                              *)
(***************************************************************************)
InitParse ==
  /\ AtCandidateLoop
  /\ line \in Strings(MaxLineLen) /\ parsed = NotParsed
  /\ h = <<>> /\ normalized = NotNormalized /\ hardware = AnyHardware
  /\ longest = MaxChunks
  /\ now = Unobserved /\ ThrottleIdle /\ faults = {} /\ ComputeIdle

\* while (std::getline(f, line)) { ... } on the one line
ParseManifestLine ==
  /\ ~parsed.done
  /\ LET files == ParseLines(<<line>>)
     IN parsed' = [done    |-> TRUE,
                   skipped |-> SkippedLine(line),
                   pushed  |-> files # <<>>,
                   hash    |-> IF files # <<>> THEN files[1].expectedHash ELSE <<>>,
                   path    |-> IF files # <<>> THEN files[1].path ELSE <<>>]
  /\ UNCHANGED <<variant, g_isRunning, g_stopRequested, counters, g_nextFileIndex,
                 g_filesProcessedCount, mgr, wk, disk, posts, cancelTriggered,
                 uiClosed, line, h, normalized, hardware, longest, faults,
                 crcRun, speed, crc32c, sinceStop, throttle, g_lastUIUpdate>>

NextParse == ParseManifestLine

SpecParse == InitParse /\ [][NextParse]_vars


(***************************************************************************)
(* Properties.                                                             *)
(***************************************************************************)
\* the work list of the run: the entries of the manifest ManagerThread loaded
LoadedFiles == SelectManifest(variant, disk).files

\* ManagerThread has been through its candidate loop in this run
Loaded == runEvents # <<>>

RunCompleted == RunEventsOf("TaskComplete") # {}

CompletedNotCanceled ==
  \E i \in RunEventsOf("TaskComplete") : ~runEvents[i].wasCanceled

Occurrences(seq, x) == Cardinality({i \in 1..Len(seq) : seq[i] = x})

\* worker w is inside VerifyFile or reporting the entry wk[w].idx
InFlight(w) ==
  wk[w].pc \in {"v_start", "v_probe", "v_read", "v_finish", "v_done",
                "w_count", "w_global", "w_log"}

\* C1: work partitioning.  No index is handed to VerifyFile twice, no two workers
\* are on the same index, and when the run completes without cancellation every
\* index 0..N-1 of the manifest has been verified and logged exactly once.
C1_ExactlyOnce ==
  /\ \A i \in 0..(MaxFiles - 1) :
       /\ Occurrences(fileEvents[i], "start") <= 1
       /\ Occurrences(fileEvents[i], "log") <= 1
  /\ \A w1, w2 \in Workers :
       (w1 # w2 /\ InFlight(w1) /\ InFlight(w2)) => wk[w1].idx # wk[w2].idx
  /\ CompletedNotCanceled =>
       \A i \in 0..(MaxFiles - 1) :
         fileEvents[i] = IF i < Len(LoadedFiles) THEN <<"start", "log">> ELSE <<>>

\* a run of two workers over a manifest of MaxFiles entries completed, not canceled
C1_Witness ==
  /\ CompletedNotCanceled
  /\ mgr.pc = "m_clear"
  /\ mgr.numThreads = 2
  /\ mgr.totalFiles = MaxFiles
  /\ g_nextFileIndex = MaxFiles + 2

\* C2: counter conservation.  After a run that completed without cancellation,
\* ok + corrupted + missing equals the number of entries of the manifest.
C2_CounterConservation ==
  CompletedNotCanceled =>
    g_CountOk + g_CountCorrupted + g_CountMissing = Len(LoadedFiles)

\* the counter each outcome is said to increment: <<ok, corrupted, missing>>
ClaimedDelta(status) ==
  CASE status = "OK"      -> <<1, 0, 0>>
    [] status = "MISSING" -> <<0, 0, 1>>
    [] OTHER              -> <<0, 1, 0>>

\* C3: in the step in which VerifyFile settles a non-canceled outcome for an entry,
\* exactly the counter of that outcome goes up by one (Corrupted, SizeError,
\* OpenError and UnsupportedAlgorithm: corrupted) and the other two keep their value.
C3_OneCounterPerOutcome ==
  [][\A w \in Workers :
       (wk[w].status = "NONE" /\ wk'[w].status # "NONE")
         => <<g_CountOk' - g_CountOk, g_CountCorrupted' - g_CountCorrupted,
              g_CountMissing' - g_CountMissing>> = ClaimedDelta(wk'[w].status)]_vars

\* C4: a run in which Stop was clicked after Start and before the terminal event
\* reports wasCanceled = true in its RunComplete.
C4_CancelReported ==
  cancelTriggered => \A i \in RunEventsOf("TaskComplete") : runEvents[i].wasCanceled

\* VerifyFile returns CANCELED to worker w in this step
ReturnsCanceled(w) == wk[w].pc = "v_finish" /\ wk'[w].pc = "exited"

\* entry i was handed to VerifyFile and no worker is on it any more, unreported
Abandoned(i) ==
  /\ fileEvents[i] = <<"start">>
  /\ \A w \in Workers : ~(InFlight(w) /\ wk[w].idx = i)

\* the messages worker w has posted about the entry it is on
Posted(w) == {wk[w].events[k] : k \in 1..Len(wk[w].events)}

\* what C5 says of the step in which VerifyFile returns Canceled to worker w, but for
\* the FileProgress messages: no counter moves, nothing is posted, and the only
\* messages about the entry are FileProgress messages
CanceledFrame(w) ==
  /\ UNCHANGED <<counters, g_filesProcessedCount, g_nextFileIndex, posts>>
  /\ \A e \in Posted(w) : e.type = "FileProgress"

\* a worker that has left its loop claims no further index, and an entry it left
\* stays unreported until the next Start
CanceledWorkerLeaves ==
  /\ \A w \in Workers : wk[w].pc = "exited" => wk'[w].pc \in {"exited", "idle"}
  /\ \A i \in 0..(MaxFiles - 1) :
       (Abandoned(i) /\ (g_isRunning \/ ~g_isRunning')) => (Abandoned(i))'

\* C5 as stated: the step in which VerifyFile returns Canceled changes none of ok,
\* corrupted, missing and not the processed-files counter; no FileProgress message
\* that carries 100%, no GlobalProgress and no LogLine message has been posted about
\* the entry; and the worker leaves its loop without claiming another index.
C5_CanceledLeavesNoTrace ==
  [][/\ (\A w \in Workers :
           ReturnsCanceled(w) =>
             /\ CanceledFrame(w)
             /\ \A e \in Posted(w) : e.val # 100)
     /\ CanceledWorkerLeaves]_vars

\* C5, amended: as above, but the FileProgress message that is not posted is the
\* closing one, post_progress(100, speed, true).  A throttled message of the read
\* loop carries 100% when the last chunk had been read before Stop was seen.
C5_CanceledNoClosingProgress ==
  [][/\ (\A w \in Workers :
           ReturnsCanceled(w) =>
             /\ CanceledFrame(w)
             /\ \A e \in Posted(w) : e.val = 100 => ~e.forced)
     /\ CanceledWorkerLeaves]_vars

\* a worker has left through a Canceled outcome while the other goes on
C5_Witness ==
  /\ \E i \in 0..(MaxFiles - 1) : Abandoned(i)
  /\ \E w \in Workers : wk[w].pc = "exited"
  /\ \E w \in Workers : InFlight(w)

\* the manifest's digest of the entry worker w is on
Expected(w) == mgr.files[wk[w].idx + 1].expectedHash

\* VerifyFile returns to worker w, in the next state, before its read loop
ReturnsEarly(w, status, ops) ==
  /\ wk'[w].pc = "w_count"
  /\ wk'[w].status = status
  /\ wk'[w].ops = ops

\* the first three decisions, on the answers of the file system (wk'[w].probe)
FileSystemDecisions(w) ==
  LET exists == wk'[w].probe[1]
      sizeOk == wk'[w].probe[2]
      openOk == wk'[w].probe[3]
  IN /\ ~exists => ReturnsEarly(w, "MISSING", {"exists"})
     /\ (exists /\ ~sizeOk) => ReturnsEarly(w, "ERROR_SIZE", {"exists", "size"})
     /\ (exists /\ sizeOk /\ ~openOk) =>
          ReturnsEarly(w, "ERROR_OPEN", {"exists", "size", "open"})

\* the file of the entry worker w is on was found, sized and opened
Opened(w) == wk'[w].probe = <<TRUE, TRUE, TRUE>>

\* the last two decisions, after the read loop.  Every expected digest of the model
\* normalises to "a", and so does the rendering of the content digest 0xa in every
\* kind's width: 0xa is the one content digest that matches
ReadDecisions(w) ==
  IF g_stopRequested
  THEN wk'[w].pc = "exited"
  ELSE /\ wk'[w].pc = "v_done"
       /\ wk'[w].status \in {"OK", "CORRUPTED"}
       /\ wk'[w].status = "OK" <=>
            NormalizeHash(ResultHash(mgr.hashType, wk'[w].digest)) = NormalizeHash(Expected(w))
       /\ wk'[w].status = "OK" <=> wk'[w].digest = 10

ProbeStep(w) == wk[w].pc = "v_probe" /\ wk'[w].pc # "v_probe"

FinishStep(w) == wk[w].pc = "v_finish" /\ wk'[w].pc # "v_finish"

\* C6 as stated: absent -> Missing with no size query, open or read; else size
\* query fails -> SizeError; else open fails -> OpenError; else the file is read and
\* the outcome is Canceled when Stop is seen, else Ok when the normalised digests
\* are equal, otherwise Corrupted.
C6_DecisionOrder ==
  [][\A w \in Workers :
       /\ ProbeStep(w) =>
            /\ FileSystemDecisions(w)
            /\ Opened(w) => wk'[w].pc = "v_read"
       /\ FinishStep(w) => ReadDecisions(w)]_vars

\* C6, amended: between the open and the read loop stands the switch on the kind:
\* for SHA512, which has no case, an opened file yields UnsupportedAlgorithm, whether
\* or not Stop was clicked; the other decisions are as stated.
C6_DecisionOrderWithSwitch ==
  [][\A w \in Workers :
       /\ ProbeStep(w) =>
            /\ FileSystemDecisions(w)
            /\ Opened(w) =>
                 IF mgr.hashType = "SHA512"
                 THEN ReturnsEarly(w, "ERROR_UNSUPPORTED_HASH", {"exists", "size", "open"})
                 ELSE wk'[w].pc = "v_read"
       /\ FinishStep(w) => ReadDecisions(w)]_vars

\* one worker has found its file's digest equal to the manifest's while the other
\* has found its file absent
C6_Witness ==
  \E w1, w2 \in Workers :
    /\ wk[w1].pc = "v_done" /\ wk[w1].status = "OK" /\ wk[w1].digest = 10
    /\ wk[w2].pc = "w_count" /\ wk[w2].status = "MISSING" /\ wk[w2].ops = {"exists"}

\* VerifyFile has returned a status to worker w, which has not counted the file yet
Returned(w) == wk[w].pc = "w_count"

\* no worker is in or past a read loop
NothingRead ==
  \A w \in Workers :
    /\ wk[w].pc \notin {"v_read", "v_finish", "v_done"}
    /\ Returned(w) => "read" \notin wk[w].ops

\* C7 as stated: under SHA512, the kind LoadManifest maps and VerifyFile has no case
\* for, every entry verified yields UnsupportedAlgorithm and no chunk is read.
C7_UnsupportedForEveryEntry ==
  mgr.hashType = "SHA512" =>
    /\ NothingRead
    /\ \A w \in Workers : Returned(w) => wk[w].status = "ERROR_UNSUPPORTED_HASH"

\* C7, amended: under SHA512 no chunk of any file is read, and an entry yields
\* UnsupportedAlgorithm exactly when its file was found, sized and opened; an absent
\* file yields Missing, a failed size query SizeError, a failed open OpenError.
C7_UnsupportedAfterOpen ==
  mgr.hashType = "SHA512" =>
    /\ NothingRead
    /\ \A w \in Workers :
         Returned(w) =>
           /\ wk[w].status = "ERROR_UNSUPPORTED_HASH" <=> wk[w].probe = <<TRUE, TRUE, TRUE>>
           /\ wk[w].status \in {"ERROR_UNSUPPORTED_HASH", "MISSING", "ERROR_SIZE", "ERROR_OPEN"}

\* under SHA512 one entry has come back UnsupportedAlgorithm and another Missing
C7_Witness ==
  /\ mgr.hashType = "SHA512"
  /\ \E w1, w2 \in Workers :
       /\ Returned(w1) /\ wk[w1].status = "ERROR_UNSUPPORTED_HASH"
       /\ Returned(w2) /\ wk[w2].status = "MISSING"

\* the places, in ManagerThread's order, of the candidates that exist and open
Loadable == {i \in 1..Len(Candidates(variant)) :
               disk[Candidates(variant)[i]].exists /\ disk[Candidates(variant)[i]].openable}

\* the candidate the claims say is used; "" when there is none
FirstLoadable == IF Loadable = {} THEN "" ELSE Candidates(variant)[Min(Loadable)]

\* no candidate exists and loads, or the one used yields no entry
NothingToVerify ==
  \/ FirstLoadable = ""
  \/ \A k \in 1..Len(disk[FirstLoadable].lines) :
       LET l == disk[FirstLoadable].lines[k] IN l = <<>> \/ l[1] = ";"

\* C8: in a run that finds no candidate that exists and loads, or whose manifest has
\* no entry, ManagerThread posts exactly one RunFailed message and no RunComplete, no
\* GlobalProgress and no FileProgress message, starts no worker, leaves ok, corrupted
\* and missing at zero, has nothing left to do but clear the running flag, and has
\* cleared it when it has returned.
C8_FatalLoad ==
  (Loaded /\ NothingToVerify) =>
    /\ Cardinality(RunEventsOf("TaskError")) = 1
    /\ RunEventsOf("TaskComplete") = {}
    /\ runEvents[Len(runEvents)].type = "TaskError"
    /\ globalEvents = <<>>
    /\ fileEvents = NoFileEvents
    /\ \A w \in Workers : wk[w] = IdleWorker
    /\ counters = <<0, 0, 0>>
    /\ g_nextFileIndex = 0 /\ g_filesProcessedCount = 0
    /\ mgr.pc \in {"m_clear", "idle"}
    /\ mgr.pc = "idle" => ~g_isRunning

\* a run over a manifest without entries has failed and ManagerThread has returned
C8_Witness ==
  /\ Loaded
  /\ FirstLoadable # ""
  /\ NothingToVerify
  /\ RunEventsOf("TaskError") # {}
  /\ mgr.pc = "idle"
  /\ ~g_isRunning

\* ManagerThread is past its candidate loop
PastCandidateLoop == mgr.pc \in {"m_clear", "m_spawn"}

\* C9: past the candidate loop, the manifest in use is the first candidate of the
\* list that exists and opens, the kind is the one of its extension, and the work
\* list is that manifest's entries, in order, and nothing else; with no such
\* candidate nothing is loaded.
C9_FirstLoadableCandidate ==
  PastCandidateLoop =>
    /\ mgr.loadedFile = FirstLoadable
    /\ mgr.totalFiles = Len(mgr.files)
    /\ IF FirstLoadable = ""
       THEN mgr.files = <<>> /\ mgr.hashType = "NONE"
       ELSE /\ mgr.hashType = ExtHashType(variant, Extension(FirstLoadable))
            /\ mgr.files = ParseLines(disk[FirstLoadable].lines)
            /\ \A k \in 1..Len(mgr.files) : mgr.files[k].path = CandidatePath(FirstLoadable)

\* the first candidate exists but does not open, the second is used and holds one
\* entry, and the third would have loaded too
C9_Witness ==
  /\ PastCandidateLoop
  /\ disk[Candidates(variant)[1]].exists /\ ~disk[Candidates(variant)[1]].openable
  /\ mgr.loadedFile = Candidates(variant)[2]
  /\ Len(mgr.files) = 1
  /\ 3 \in Loadable

\* the text of line before its first space or tab
TextBeforeWhiteSpace(l) ==
  IF FindFirstOf(l, WhiteSpace) = Npos THEN l ELSE SubSeq(l, 1, FindFirstOf(l, WhiteSpace))

\* the text of line after its first run of spaces and tabs
TextAfterWhiteSpaceRun(l) ==
  LET from == EraseFront(l, FindFirstOf(l, WhiteSpace))
  IN EraseFront(from, FindFirstNotOf(from, WhiteSpace))

\* s without one leading '*'
WithoutOneStar(s) == IF s # <<>> /\ s[1] = "*" THEN Tail(s) ELSE s

SplitsAt(l, i, j, k) ==
  /\ \A m \in 1..i : l[m] \in WhiteSpace
  /\ \A m \in (i + 1)..j : l[m] \notin WhiteSpace
  /\ l[j + 1] \in WhiteSpace
  /\ \A m \in (j + 1)..k : l[m] \in {" ", "*"}
  /\ l[k + 1] \notin {" ", "*"}

Splits(l) ==
  {s \in (0..Len(l)) \X (0..Len(l)) \X (0..Len(l)) :
     s[1] < s[2] /\ s[2] <= s[3] /\ s[3] < Len(l) /\ SplitsAt(l, s[1], s[2], s[3])}

ManifestInUse == disk[mgr.loadedFile].lines

\* line l gives an entry: it is not blank, does not begin with ';', and has a path
GivesEntry(l) == l # <<>> /\ l[1] # ";" /\ Splits(l) # {}

\* the entry of a line that gives one
EntryOf(l) ==
  LET s == CHOOSE t \in Splits(l) : TRUE
  IN [path |-> SubSeq(l, s[3] + 1, Len(l)), expectedHash |-> SubSeq(l, s[1] + 1, s[2])]

\* the places of the lines of the manifest that give an entry
EntryLines == {i \in 1..Len(ManifestInUse) : GivesEntry(ManifestInUse[i])}

\* C11: the work list holds one entry for each line of the manifest that is not
\* blank, does not begin with ';' and has a path left after stripping, in the order
\* of the lines, and nothing for the other lines.
C11_OneEntryPerPathLine ==
  (PastCandidateLoop /\ mgr.loadedFile # "") =>
    /\ Len(mgr.files) = Cardinality(EntryLines)
    /\ \A i \in EntryLines :
         mgr.files[Cardinality({j \in EntryLines : j <= i})] = EntryOf(ManifestInUse[i])

\* a manifest of MaxLines lines was loaded whose first and last line have different
\* paths: the two entries stand in the order of their lines
C11_Witness ==
  /\ PastCandidateLoop
  /\ mgr.loadedFile # ""
  /\ Len(ManifestInUse) = MaxLines
  /\ EntryLines = {1, MaxLines}
  /\ mgr.files[1].path = <<"b">>
  /\ mgr.files[2].path = <<"a">>

\* C12: NormalizeHash is idempotent and case-insensitive.  Normalising the result
\* of NormalizeHash(h) again gives the same string, and a string that differs from h
\* in letter case only has the same normal form, for every h over '0', '1', 'a',
\* 'A', 'x' and 'X'.
C12_IdempotentCaseInsensitive ==
  normalized.done =>
    /\ normalized.twice = normalized.once
    /\ normalized.relation = "case" => normalized.otherOnce = normalized.once

\* a string with a capital hex digit behind "0X" was normalised beside its lower-case
\* spelling
C12_Witness ==
  /\ normalized.done
  /\ normalized.relation = "case"
  /\ h = <<"0", "X", "0", "A">>
  /\ normalized.other = <<"0", "x", "0", "a">>
  /\ normalized.once = <<"a">>

\* s in lower case
Lower(s) == [i \in 1..Len(s) |-> IF s[i] \in {"A", "X"} THEN OtherCase(s[i]) ELSE s[i]]

\* s without one "0x" in front
WithoutPrefix(s) ==
  IF Len(s) >= 2 /\ s[1] = "0" /\ s[2] = "x" THEN SubSeq(s, 3, Len(s)) ELSE s

\* r is s without its leading zeros: s is k zeros and then r, and r starts with none
IsWithoutLeadingZeros(r, s) ==
  \E k \in 0..Len(s) :
    /\ \A i \in 1..k : s[i] = "0"
    /\ r = SubSeq(s, k + 1, Len(s))
    /\ r = <<>> \/ r[1] # "0"

\* C13: NormalizeHash(h) is h in lower case, less one "0x" in front, less the leading
\* zeros that follow, and "0" when nothing is left: it is "0" or a non-empty string
\* that does not start with '0'.  A digest of hex digits has the same normal form
\* behind a "0x" and behind leading zeros, and "" normalises to "0".
C13_NormalForm ==
  normalized.done =>
    /\ \E r \in {normalized.once, <<>>} :
         /\ IsWithoutLeadingZeros(r, WithoutPrefix(Lower(h)))
         /\ normalized.once = IF r = <<>> THEN <<"0">> ELSE r
    /\ normalized.once = <<"0">> \/ (normalized.once # <<>> /\ normalized.once[1] # "0")
    /\ normalized.relation = "prefix" => normalized.otherOnce = normalized.once
    /\ h = <<>> => normalized.once = <<"0">>

\* "0a0" was normalised beside "0x0a0": both give "a0"
C13_Witness ==
  /\ normalized.done
  /\ normalized.relation = "prefix"
  /\ h = <<"0", "a", "0">>
  /\ normalized.other = <<"0", "x", "0", "a", "0">>
  /\ normalized.once = <<"a", "0">>

\* the threads of g_workers: started and not yet joined
Started == {w \in Workers : wk[w].pc # "idle"}

\* the pool is running: ManagerThread is between its emplace_back loop and the join
PoolRunning == mgr.pc = "m_join"

\* C14 as stated: the pool has min(hardware_concurrency, 4) workers and never fewer
\* than 2, and its size does not change between the start and the join.
C14_PoolSizeAtLeastTwo ==
  PoolRunning =>
    /\ \A n \in hardware : mgr.numThreads = (IF n < 4 THEN n ELSE 4)
    /\ mgr.numThreads >= 2
    /\ Cardinality(Started) = mgr.numThreads

\* C14, amended: the pool has min(hardware_concurrency, 4) workers when
\* hardware_concurrency reports 1 or more, which is 1 worker on a machine that
\* reports 1, and 2 workers when it reports 0; the size lies in 1..4 and does not
\* change between the start and the join.
C14_PoolSize ==
  PoolRunning =>
    /\ \A n \in hardware :
         mgr.numThreads = (IF n = 0 THEN 2 ELSE IF n < 4 THEN n ELSE 4)
    /\ mgr.numThreads \in 1..4
    /\ Cardinality(Started) = mgr.numThreads
    /\ Started = 1..mgr.numThreads

\* on a machine that reports more than 4, four workers run and one of them is
\* verifying the entry while another has left its loop
C14_Witness ==
  /\ PoolRunning
  /\ hardware = {MaxHardware}
  /\ Cardinality(Started) = 4
  /\ \E w1, w2 \in Started : wk[w1].pc = "v_read" /\ wk[w2].pc = "exited"

\* C15: RunComplete is posted only when every worker of the run has returned, and
\* it is the last message of the run: from then until the next Start no worker
\* exists, no message is posted and none of ok, corrupted, missing and the
\* processed-files counter changes.
C15_CompleteAfterJoin ==
  [][/\ (~RunCompleted /\ RunCompleted') =>
          \A w \in Workers : wk[w].pc \in {"idle", "exited"}
     /\ RunCompleted =>
          /\ \A w \in Workers : wk[w] = IdleWorker
          /\ runEvents[Len(runEvents)].type = "TaskComplete"
          /\ RunCompleted' =>
               UNCHANGED <<posts, counters, g_filesProcessedCount, g_nextFileIndex, wk>>]_vars

\* a run over MaxFiles entries has posted its RunComplete after a GlobalProgress for
\* each entry, and ManagerThread has returned
C15_Witness ==
  /\ RunCompleted
  /\ ~g_isRunning
  /\ Len(globalEvents) = MaxFiles + 1
  /\ g_filesProcessedCount = MaxFiles

\* the percent values of the FileProgress messages worker w has posted about the
\* entry it is on, in the order of the posts
Percents(w) ==
  LET at == {k \in 1..Len(wk[w].events) : wk[w].events[k].type = "FileProgress"}
  IN [k \in at |-> wk[w].events[k].val]

\* C16: the percent values of the FileProgress messages about one entry never go
\* down, from the forced 0% through the throttled messages to the forced 100%,
\* whatever the size query returned and however many chunks the file delivers.
C16_PercentNonDecreasing ==
  \A w \in Workers :
    \A k, l \in DOMAIN Percents(w) : k < l => Percents(w)[k] <= Percents(w)[l]

\* the FileProgress messages worker w has posted for its entry, in order
ProgressEvents(w) == SelectSeq(wk[w].events, LAMBDA e : e.type = "FileProgress")

\* worker w is inside VerifyFile, past its first statement, or back from it
PastStart(w) == wk[w].pc \in {"v_probe", "v_read", "v_finish", "v_done", "w_count",
                               "w_global", "w_log"}

\* VerifyFile has returned to worker w after a digest comparison
Compared(w) ==
  /\ wk[w].pc \in {"w_count", "w_global", "w_log"}
  /\ wk[w].status \in {"OK", "CORRUPTED"}

\* the 0% message is the entry's first and is posted before any file-system call, and
\* the 100% message is the last FileProgress of an entry whose digest was compared
ForcedEnds(w) ==
  /\ PastStart(w) => /\ ProgressEvents(w) # <<>>
                     /\ ProgressEvents(w)[1] = FileProgress(0, TRUE)
  /\ wk[w].pc = "v_probe" => /\ wk[w].events = <<FileProgress(0, TRUE)>>
                             /\ wk[w].ops = {}
  /\ Compared(w) => ProgressEvents(w)[Len(ProgressEvents(w))] = FileProgress(100, TRUE)

\* worker w posts a message with force = true in this step
PostsForced(w) ==
  /\ Len(wk'[w].events) = Len(wk[w].events) + 1
  /\ wk'[w].events[Len(wk'[w].events)].type = "FileProgress"
  /\ wk'[w].events[Len(wk'[w].events)].forced

\* C17: for every claimed entry a 0% FileProgress is forwarded before the existence
\* check and before any read, and for every entry whose verification ends with a
\* digest comparison a 100% FileProgress is forwarded as the entry's last FileProgress;
\* both are forwarded at every reading of the clock against g_lastUIUpdate, and the
\* step that forwards one leaves g_lastUIUpdate as it is.
C17_ForcedProgress ==
  [][/\ \A w \in Workers : ForcedEnds(w)'
     /\ \A w \in Workers : PostsForced(w) => g_lastUIUpdate' = g_lastUIUpdate
     /\ \A w \in Workers :
          (wk[w].pc = "v_start" /\ wk'[w].pc # "v_start") \/
          (wk[w].pc = "v_done" /\ wk'[w].pc # "v_done") => PostsForced(w)]_vars

\* a worker's throttled message was granted at this reading of the clock, and the
\* closing 100% followed it within the interval
C17_Witness ==
  \E w \in Workers :
    /\ wk[w].pc = "w_count"
    /\ wk[w].status = "OK"
    /\ Len(ProgressEvents(w)) = 3
    /\ ~ProgressEvents(w)[2].forced
    /\ now > 0
    /\ g_lastUIUpdate = now

\* the forwarded messages that went through ShouldUpdateUI
Throttled == {i \in 1..Len(forwarded) : ~forwarded[i].forced}

\* the distance of two clock readings
Apart(a, b) == IF a >= b THEN a - b ELSE b - a

\* C18 as stated: of several workers that call ShouldUpdateUI within one interval at
\* most one is granted, and any two forwarded non-forced FileProgress messages, of one
\* thread or of two, are forwarded at least UI_UPDATE_INTERVAL_MS apart.
C18_ForwardedApart ==
  \A i, j \in Throttled :
    i # j => /\ Apart(forwarded[i].granted, forwarded[j].granted) >= UI_UPDATE_INTERVAL_MS(variant)
             /\ Apart(forwarded[i].at, forwarded[j].at) >= UI_UPDATE_INTERVAL_MS(variant)

\* the clock readings at which ShouldUpdateUI has returned true: those of the messages
\* forwarded and those of the threads that are about to post
Grants ==
  {<<"forwarded", i, forwarded[i].granted>> : i \in Throttled} \cup
  {<<"caller", t, callers[t].now>> :
     t \in {u \in Callers : callers[u].pc = "post" /\ ~callers[u].force}}

\* C18, amended: at most one thread is between ShouldUpdateUI's lock_guard and its
\* return, of several workers that call it within one interval at most one is granted,
\* and any two clock readings at which it returned true are at least
\* UI_UPDATE_INTERVAL_MS apart; nothing is said of the times at which the messages are
\* posted, which happens after the mutex is released.
C18_GrantsApart ==
  /\ Cardinality({t \in Callers : callers[t].pc = "test"}) <= 1
  /\ \A t \in Callers : callers[t].pc = "test" => g_uiMutex = t
  /\ \A a, b \in Grants : a # b => Apart(a[3], b[3]) >= UI_UPDATE_INTERVAL_MS(variant)

\* two threads were granted an interval apart, and the one granted first posted its
\* message after the other, at the same reading of the clock
C18_Witness ==
  \E i, j \in Throttled :
    /\ i < j
    /\ forwarded[i].by # forwarded[j].by
    /\ forwarded[j].granted + UI_UPDATE_INTERVAL_MS(variant) <= forwarded[i].granted
    /\ forwarded[i].at = forwarded[j].at

\* filesDone of the GlobalProgress messages the workers have posted in this run, in
\* order: all but ManagerThread's own, which comes first and carries 0
WorkerGlobals == IF globalEvents = <<>> THEN <<>> ELSE Tail(globalEvents)

\* the workers between the increment of g_filesProcessedCount and their GlobalProgress
Incremented == {w \in Workers : wk[w].pc = "w_global"}

\* the LogLine messages posted about the entries in this run
LoggedEntries ==
  UNION {{<<i, k>> : k \in {n \in 1..Len(fileEvents[i]) : fileEvents[i][n] = "log"}} :
           i \in 0..(MaxFiles - 1)}

\* the GlobalProgress messages among those worker w has posted about its entry
GlobalsOf(w) == {k \in 1..Len(wk[w].events) : wk[w].events[k].type = "GlobalProgress"}

\* C19: each entry that ends with a non-canceled outcome increments
\* g_filesProcessedCount once and causes one GlobalProgress message, which carries the
\* value that increment produced and the manifest's length; the filesDone values of a
\* run are pairwise distinct and lie in 1..totalFiles.  A run begins with
\* ManagerThread's resets.
C19_OneGlobalProgressPerEntry ==
  mgr.pc # "m_reset" =>
    /\ g_filesProcessedCount =
         Cardinality(LoggedEntries) + Cardinality({w \in Workers : wk[w].pc \in {"w_global", "w_log"}})
    /\ Len(WorkerGlobals) = g_filesProcessedCount - Cardinality(Incremented)
    /\ \A i, j \in 1..Len(WorkerGlobals) : i # j => WorkerGlobals[i] # WorkerGlobals[j]
    /\ \A v, w \in Incremented : v # w => wk[v].processedCount # wk[w].processedCount
    /\ {WorkerGlobals[i] : i \in 1..Len(WorkerGlobals)} \cup
       {wk[w].processedCount : w \in Incremented} = 1..g_filesProcessedCount
    /\ mgr.pc \in {"m_join", "m_complete", "m_clear"} =>
         /\ g_filesProcessedCount <= mgr.totalFiles
         /\ \A i \in 1..Len(WorkerGlobals) : WorkerGlobals[i] \in 1..mgr.totalFiles
    /\ \A w \in Workers :
         /\ wk[w].pc \in {"v_start", "v_probe", "v_read", "v_finish", "v_done", "w_count",
                          "w_global"} => GlobalsOf(w) = {}
         /\ wk[w].pc = "w_log" =>
              /\ Cardinality(GlobalsOf(w)) = 1
              /\ \A k \in GlobalsOf(w) :
                   wk[w].events[k] = GlobalProgress(wk[w].processedCount, Len(mgr.files))
         /\ Cardinality(GlobalsOf(w)) <= 1

\* two workers finished the two entries of a manifest, and the GlobalProgress of the
\* second increment reached the window before that of the first
C19_Witness ==
  /\ globalEvents = <<0, 2, 1>>
  /\ mgr.totalFiles = 2
  /\ g_filesProcessedCount = 2
  /\ \E w \in Workers : wk[w].pc = "w_log" /\ wk[w].processedCount = 1

\* the statuses VerifyFile returns for an entry that was not canceled
Outcomes == {"OK", "CORRUPTED", "MISSING", "ERROR_SIZE", "ERROR_OPEN",
             "ERROR_UNSUPPORTED_HASH"}

\* C20: every failure while verifying an entry, an error from the existence check,
\* a failing size query, open, read or buffer allocation, becomes a status that
\* VerifyFile returns; none ends the worker or the process, and the worker goes back
\* to the head of its loop to claim the next index.
C20_FailuresBecomeOutcomes ==
  /\ \A w \in Workers : wk[w].pc # "terminated"
  /\ mgr.pc # "terminated"
  /\ \A w \in Workers :
       wk[w].pc \in {"w_count", "w_global", "w_log"} => wk[w].status \in Outcomes

(***************************************************************************)
(* Scheduling: ManagerThread and every HashWorker are threads of their     *)
(* own, and a thread that can take a step takes one in the end.  The       *)
(* clicks on the window are under no such condition.                       *)
(***************************************************************************)
ManagerSteps(disks) ==
  ManagerReset \/ ManagerLoad(disks) \/ ManagerSpawn \/ ManagerComplete \/ ManagerClear

WorkerSteps(w) ==
  \/ WorkerHead(w) \/ WorkerClaim(w)
  \/ VerifyStart(w) \/ VerifyProbe(w) \/ VerifyRead(w) \/ VerifyFinish(w) \/ VerifyDone(w)
  \/ WorkerCount(w) \/ WorkerPostGlobal(w) \/ WorkerPostLog(w)

FairWorkers == \A w \in Workers : WF_vars(WorkerSteps(w))

\* the runs of Spec under that scheduling: no call throws
SpecLive == Spec /\ WF_vars(ManagerSteps(RunDisks(variant))) /\ FairWorkers

\* under that scheduling, and when no call throws, a started run clears g_isRunning
RunsEnd == g_isRunning ~> ~g_isRunning

\* the terminal messages of the run: WM_APP_TASK_COMPLETE and WM_APP_TASK_ERROR
Terminals == RunEventsOf("TaskComplete") \cup RunEventsOf("TaskError")

\* ManagerThread has returned, or the process has ended under it, after it posted a
\* message of its own
RunOver == mgr.pc \in {"idle", "terminated"} /\ runEvents # <<>>

\* C21: every started run emits exactly one terminal event, RunFailed or RunComplete,
\* never both and never neither, and then clears the running flag; RunComplete carries
\* the number of entries of the manifest as totalFiles.  A run whose threads have all
\* ended has posted its terminal event and cleared g_isRunning.
C21_OneTerminalEvent ==
  /\ Cardinality(Terminals) <= 1
  /\ ~g_isRunning /\ runEvents # <<>> => Cardinality(Terminals) = 1
  /\ mgr.pc = "m_clear" =>
       /\ Cardinality(Terminals) = 1
       /\ \A i \in RunEventsOf("TaskComplete") : runEvents[i].totalFiles = Len(mgr.files)
  /\ RunOver => ~g_isRunning /\ Cardinality(Terminals) = 1

(***************************************************************************)
(* The table-driven CRC loops alone: the CRC32 loop of VerifyFile and      *)
(* ComputeCRC32C, on the bytes of one file that f.read delivers in chunks  *)
(* of any size.  A uint32_t is held as its two 16-bit halves.              *)
(***************************************************************************)
RECURSIVE Xor(_, _)
\* a ^ b on naturals
Xor(a, b) ==
  IF a = 0 THEN b
  ELSE IF b = 0 THEN a
  ELSE 2 * Xor(a \div 2, b \div 2) + ((a + b) % 2)

Word(hi, lo) == [hi |-> hi, lo |-> lo]

\* a ^ b on uint32_t
Xor32(a, b) == Word(Xor(a.hi, b.hi), Xor(a.lo, b.lo))

\* c >> 1 and c >> 8 on uint32_t
Shr1(c) == Word(c.hi \div 2, (c.lo \div 2) + (c.hi % 2) * 32768)
Shr8(c) == Word(c.hi \div 256, (c.lo \div 256) + (c.hi % 256) * 256)

\* 0xEDB88320 and 0x82F63B78
POLY(kind) == IF kind = "CRC32" THEN Word(60856, 33568) ELSE Word(33526, 15224)

\* 0xFFFFFFFFu
AllOnes == Word(65535, 65535)

RECURSIVE TableBits(_, _, _)
\* k passes of the inner loop of the table construction on c
TableBits(kind, c, k) ==
  IF k = 0 THEN c
  ELSE TableBits(kind,
                 IF c.lo % 2 = 1 THEN Xor32(POLY(kind), Shr1(c)) ELSE Shr1(c),
                 k - 1)

\* crc32_table[n] as MakeCrcTable fills it, crc32c_table[n] as ComputeCRC32C does
crc_table(kind, n) == TableBits(kind, Word(0, n), 8)

\* (uint8_t)buffer[i] of a char
Uint8(c) == c % 256

\* crc = (crc >> 8) ^ table[(crc ^ (uint8_t)buffer[i]) & 0xFF]
UpdateByte(kind, crc, c) ==
  Xor32(Shr8(crc), crc_table(kind, Xor(crc.lo % 256, Uint8(c))))

RECURSIVE UpdateBytes(_, _, _)
UpdateBytes(kind, crc, chunk) ==
  IF chunk = <<>> THEN crc
  ELSE UpdateBytes(kind, UpdateByte(kind, crc, Head(chunk)), Tail(chunk))

\* a loop that starts every chunk from 0xFFFFFFFF
UpdateChunkReseeded(kind, crc, chunk) == UpdateBytes(kind, AllOnes, chunk)

\* the for loop over the r bytes of one chunk
UpdateChunk(kind, crc, chunk) == UpdateBytes(kind, crc, chunk)

\* the values a char takes: signed on this compiler
Chars == {-1, 0, 97}

RECURSIVE Buffers(_)
\* the byte sequences of at most n chars
Buffers(n) ==
  IF n = 0 THEN {<<>>}
  ELSE LET shorter == Buffers(n - 1)
       IN shorter \cup {Append(t, c) : t \in {u \in shorter : Len(u) = n - 1}, c \in Chars}

InitCrc ==
  /\ InitRun
  /\ line = <<>> /\ parsed = NotParsed /\ h = <<>> /\ normalized = NotNormalized
  /\ hardware = AnyHardware /\ longest = MaxChunks
  /\ now = Unobserved /\ ThrottleIdle /\ faults = {}
  /\ speed = NoSamples /\ sinceStop = NoneSinceStop /\ crc32c = NoTable
  /\ \E kind \in {"CRC32", "CRC32C"}, data \in Buffers(MaxBytes) :
       crcRun = [kind |-> kind, data |-> data, pos |-> 0, crc |-> AllOnes,
                 chunks |-> 0, done |-> FALSE]

\* one pass of while (f.good()): f.read delivers r bytes, 1 to all that remain
ReadChunk ==
  /\ crcRun.kind # "none" /\ ~crcRun.done
  /\ \E r \in 1..(Len(crcRun.data) - crcRun.pos) :
       crcRun' = [crcRun EXCEPT
                    !.crc = UpdateChunk(crcRun.kind, @,
                              SubSeq(crcRun.data, crcRun.pos + 1, crcRun.pos + r)),
                    !.pos = @ + r,
                    !.chunks = @ + 1]
  /\ UNCHANGED <<variant, g_isRunning, g_stopRequested, counters, g_nextFileIndex,
                 g_filesProcessedCount, mgr, wk, disk, posts, cancelTriggered,
                 uiClosed, line, parsed, h, normalized, hardware, longest, faults,
                 speed, crc32c, sinceStop, throttle, g_lastUIUpdate>>

\* the read at the end of the file delivers nothing; crc ^= 0xFFFFFFFFu
FinishCrc ==
  /\ crcRun.kind # "none" /\ ~crcRun.done
  /\ crcRun.pos = Len(crcRun.data)
  /\ crcRun' = [crcRun EXCEPT !.crc = Xor32(@, AllOnes), !.done = TRUE]
  /\ UNCHANGED <<variant, g_isRunning, g_stopRequested, counters, g_nextFileIndex,
                 g_filesProcessedCount, mgr, wk, disk, posts, cancelTriggered,
                 uiClosed, line, parsed, h, normalized, hardware, longest, faults,
                 speed, crc32c, sinceStop, throttle, g_lastUIUpdate>>

NextCrc == ReadChunk \/ FinishCrc

SpecCrc == InitCrc /\ [][NextCrc]_vars

\* the CRC of the whole byte sequence fed as one chunk
OneChunk(kind, data) == Xor32(UpdateChunk(kind, AllOnes, data), AllOnes)

\* C22: for the CRC32 and the CRC32C loop, whatever the sizes of the consecutive
\* chunks a byte sequence was fed in, the final CRC is the one obtained by feeding
\* the whole sequence as one chunk.
C22_ChunkingInvariant ==
  crcRun.done => crcRun.crc = OneChunk(crcRun.kind, crcRun.data)

\* "a" fed after two other bytes, in three chunks, and the CRC32 of "a" alone
C22_Witness ==
  /\ crcRun.done /\ crcRun.chunks = MaxBytes /\ crcRun.data[MaxBytes] = 97
  /\ OneChunk("CRC32", <<97>>) = Word(59575, 48707)
  /\ OneChunk("CRC32C", <<97>>) = Word(49616, 17200)

(***************************************************************************)
(* The counters of a run.                                                  *)
(***************************************************************************)
\* ManagerThread is past its resets and has not yet cleared g_isRunning
InRun == mgr.pc \notin {"idle", "m_reset", "terminated"}

Counted == g_CountOk + g_CountCorrupted + g_CountMissing

\* C23: in every state of a run, canceled or not, ok + corrupted + missing is at
\* most totalFiles, and from the run's resets to the end of the run none of the
\* three counters decreases.
C23_CountersBoundedMonotone ==
  /\ [](InRun /\ mgr.pc # "m_load" => Counted <= Len(mgr.files))
  /\ [](InRun /\ mgr.pc = "m_load" => Counted = 0)
  /\ [][InRun /\ InRun' =>
          /\ g_CountOk' >= g_CountOk
          /\ g_CountCorrupted' >= g_CountCorrupted
          /\ g_CountMissing' >= g_CountMissing]_vars

\* a canceled run of a manifest of MaxFiles entries that counted one of them
C23_Witness ==
  /\ mgr.pc = "m_clear" /\ Len(mgr.files) = MaxFiles
  /\ \E i \in RunEventsOf("TaskComplete") : runEvents[i].wasCanceled
  /\ Counted = 1

\* the entries VerifyFile was entered for in this run
StartedEntries == {i \in 0..(MaxFiles - 1) : fileEvents[i] # <<>>}

\* ManagerThread between its resets and the start of the pool
BeforePool == mgr.pc \in {"m_load", "m_spawn"}

\* C24: at the start of every run the three counters, the cursor and the
\* processed-files counter are 0 and the cancellation flag was reset before any
\* worker starts (the flag is set then only by a Stop of this run), so during the
\* run the counters count only entries verified in this run, also after a run that
\* was canceled or failed.
C24_ResetAtRunStart ==
  /\ [](BeforePool =>
          /\ Counted = 0 /\ g_nextFileIndex = 0 /\ g_filesProcessedCount = 0
          /\ g_stopRequested => cancelTriggered
          /\ \A w \in Workers : wk[w].pc \in {"idle", "exited"})
  /\ [](InRun => Counted <= Cardinality(StartedEntries))
  /\ [][mgr.pc = "m_reset" /\ mgr'.pc # "m_reset" =>
          /\ ~g_stopRequested'
          /\ g_CountOk' = 0 /\ g_CountCorrupted' = 0 /\ g_CountMissing' = 0
          /\ g_nextFileIndex' = 0 /\ g_filesProcessedCount' = 0]_vars

\* the start of a run, before its resets, after a canceled run that had counted an
\* entry: the flag and the counters are those of the run before
C24_Witness ==
  /\ mgr.pc = "m_reset" /\ g_isRunning
  /\ g_stopRequested /\ ~cancelTriggered
  /\ Counted > 0 /\ g_nextFileIndex > 0 /\ g_filesProcessedCount > 0

\* C25: every FileProgress message carries a percentage in 0..100, also for an empty
\* file and for a file that delivers more or fewer bytes than fs::file_size
\* returned.
C25_PercentInRange ==
  \A w \in Workers : \A k \in 1..Len(wk[w].events) :
    wk[w].events[k].type = "FileProgress" => wk[w].events[k].val \in 0..100

\* the first candidate that exists and opens yields no entry
FirstLoadableEmpty ==
  FirstLoadable # "" /\ ParseLines(disk[FirstLoadable].lines) = <<>>

\* C26: when the first candidate that exists and loads yields zero entries, the run
\* ends with the fatal "Empty manifest" message: the candidate loop stopped at that
\* candidate and no candidate after it is used, even one that holds entries.
C26_EmptyManifestStops ==
  (PastCandidateLoop /\ FirstLoadableEmpty) =>
    /\ mgr.pc = "m_clear"
    /\ mgr.loadedFile = FirstLoadable
    /\ mgr.files = <<>> /\ mgr.totalFiles = 0
    /\ runEvents = <<ManifestLog(FirstLoadable), TaskError("Error: Empty manifest.")>>
    /\ globalEvents = <<>>
    /\ \A w \in Workers : wk[w] = IdleWorker

\* the run failed on an empty candidate in front of one that holds an entry
C26_Witness ==
  /\ PastCandidateLoop /\ FirstLoadableEmpty
  /\ \E j \in Loadable :
       /\ j > Min(Loadable)
       /\ ParseLines(disk[Candidates(variant)[j]].lines) # <<>>
  /\ RunEventsOf("TaskError") # {}

\* C27: while the cancellation flag is set each worker does at most one
\* fetch-and-increment on the cursor; a worker that read the flag as set, at the head
\* of its loop or in VerifyFile's check after the read loop, claims no index any
\* more; so at most as many entries as the pool has workers get their outcome after
\* the flag was set.
C27_OneFetchAfterStop ==
  /\ [](\A w \in Workers : sinceStop.fetches[w] <= 1)
  /\ [](mgr.pc \in {"m_join", "m_clear"} => sinceStop.outcomes <= mgr.numThreads)
  /\ [][\A w \in Workers :
          /\ (g_stopRequested /\ wk[w].pc \in {"head", "v_finish"} /\ wk'[w] # wk[w])
               => wk'[w].pc = "exited"
          /\ wk[w].pc = "exited" => wk'[w].pc \in {"exited", "idle"}]_vars

\* a pool of one worker that fetched an index and booked its outcome under a set flag,
\* and left the second entry unclaimed
C27_Witness ==
  /\ mgr.pc = "m_clear" /\ mgr.numThreads = 1 /\ Len(mgr.files) = MaxFiles
  /\ sinceStop.fetches[1] = 1 /\ sinceStop.outcomes = 1
  /\ g_nextFileIndex < Len(mgr.files)

(***************************************************************************)
(* SpeedBuffer alone, under the steady clock: the AddSample and GetSpeed   *)
(* calls of one read loop.  A sample carries the number of the AddSample   *)
(* call that pushed it.                                                    *)
(***************************************************************************)
\* const size_t maxSamples = 5
maxSamples == 5

\* a deque that is never popped
AddSampleKeepsAll(samples, sample) == Append(samples, sample)

\* samples.push_back(...); if (samples.size() > maxSamples) samples.pop_front()
AddSample(samples, sample) ==
  LET pushed == Append(samples, sample)
  IN IF Len(pushed) > maxSamples THEN Tail(pushed) ELSE pushed

RECURSIVE TotalBytes(_, _)
\* for (size_t i = 1; i < samples.size(); ++i) totalBytes += samples[i].second, from
\* the C++ index i on
TotalBytes(samples, i) ==
  IF i >= Len(samples) THEN 0 ELSE samples[i + 1].bytes + TotalBytes(samples, i + 1)

\* GetSpeed(): (totalBytes / 1024.0 / 1024.0) / (duration / 1000.0), as the fraction
\* totalBytes * 1000 / (duration * 1024 * 1024)
GetSpeed(samples) ==
  IF Len(samples) < 2 THEN Zero
  ELSE LET duration == samples[Len(samples)].time - samples[1].time
       IN IF duration = 0 THEN Zero
          ELSE [num |-> TotalBytes(samples, 1) * 1000, den |-> duration * 1024 * 1024]

\* the sizes of the chunks a read delivers, in bytes
ChunkBytes == {1, 3}

InitSpeed ==
  /\ InitRun /\ variant = "full"
  /\ line = <<>> /\ parsed = NotParsed /\ h = <<>> /\ normalized = NotNormalized
  /\ hardware = AnyHardware /\ longest = MaxChunks
  /\ now = 0 /\ ThrottleIdle /\ faults = {} /\ ComputeIdle

\* speedBuffer.AddSample(r); post_progress(pct, speedBuffer.GetSpeed())
ReadSample ==
  /\ now # Unobserved
  /\ speed.added < MaxAdds
  /\ \E r \in ChunkBytes :
       LET samples == AddSample(speed.samples,
                                [time |-> now, bytes |-> r, call |-> speed.added + 1])
       IN speed' = [samples |-> samples, added |-> speed.added + 1,
                    reported |-> GetSpeed(samples)]
  /\ UNCHANGED <<variant, g_isRunning, g_stopRequested, counters, g_nextFileIndex,
                 g_filesProcessedCount, mgr, wk, disk, posts, cancelTriggered,
                 uiClosed, line, parsed, h, normalized, hardware, longest, faults,
                 crcRun, crc32c, sinceStop, throttle, g_lastUIUpdate>>

NextSpeed == Tick \/ ReadSample

SpecSpeed == InitSpeed /\ [][NextSpeed]_vars

RECURSIVE SumBytes(_)
SumBytes(samples) ==
  IF samples = <<>> THEN 0 ELSE Head(samples).bytes + SumBytes(Tail(samples))

\* the samples are those of the latest AddSample calls, oldest first, at most
\* maxSamples of them
LatestWindow ==
  /\ Len(speed.samples) = IF speed.added < maxSamples THEN speed.added ELSE maxSamples
  /\ \A i \in 1..Len(speed.samples) :
       speed.samples[i].call = speed.added - Len(speed.samples) + i

\* the time between the oldest and the newest sample
Elapsed == speed.samples[Len(speed.samples)].time - speed.samples[1].time

ReportsZero == Len(speed.samples) < 2 \/ Elapsed = 0

\* C28 as claimed: at most 5 samples, the oldest evicted first; GetSpeed is 0 with
\* fewer than two samples or no elapsed time, and otherwise the bytes of all samples
\* in the window over the time between the oldest and the newest.
C28_SpeedOverAllSamples ==
  /\ LatestWindow
  /\ IF ReportsZero THEN speed.reported = Zero
     ELSE speed.reported = [num |-> SumBytes(speed.samples) * 1000,
                            den |-> Elapsed * 1024 * 1024]

\* C28: at most 5 samples, the oldest evicted first; GetSpeed is 0 with fewer than
\* two samples or no elapsed time, and otherwise the bytes of the samples in the
\* window but the oldest, over the time between the oldest and the newest.
C28_SpeedOverLaterSamples ==
  /\ LatestWindow
  /\ IF ReportsZero THEN speed.reported = Zero
     ELSE speed.reported = [num |-> SumBytes(Tail(speed.samples)) * 1000,
                            den |-> Elapsed * 1024 * 1024]

\* a full window after an eviction, with time between its oldest and newest sample
C28_Witness ==
  /\ speed.added > maxSamples /\ Len(speed.samples) = maxSamples
  /\ Elapsed > 0
  /\ speed.reported.num = SumBytes(Tail(speed.samples)) * 1000
  /\ speed.reported.num > 0

\* the messages worker w has posted about its entry are, in order: the forced 0%,
\* throttled FileProgress messages, the forced 100% when the digest was compared, the
\* GlobalProgress, one LogLine
EntryOrder(w) ==
  LET ev == wk[w].events
      n  == Len(ev)
      closing == {k \in 2..n : ev[k].type = "FileProgress" /\ ev[k].forced}
      globals == {k \in 1..n : ev[k].type = "GlobalProgress"}
      logs    == {k \in 1..n : ev[k].type = "LogLine"}
  IN /\ n > 0 => ev[1] = FileProgress(0, TRUE)
     /\ \A k \in 2..n : ev[k].type = "FileProgress" =>
          \A j \in 1..(k - 1) : ev[j].type = "FileProgress" /\ (j > 1 => ~ev[j].forced)
     /\ \A k \in closing : ev[k].val = 100
     /\ \A k \in globals :
          /\ \A j \in 1..(k - 1) : ev[j].type = "FileProgress"
          /\ (k - 1 \in closing) =
               IF logs = {} THEN wk[w].status \in {"OK", "CORRUPTED"}
               ELSE ev[n].val \in {"OK", "CORRUPTED"}
     /\ \A k \in logs : k = n /\ k - 1 \in globals
     /\ wk[w].pc = "w_log" => Cardinality(globals) = 1 /\ logs = {}
     /\ wk[w].pc = "head" /\ n > 0 => Cardinality(logs) = 1

\* C29: about each entry with a non-canceled outcome the messages are posted in this
\* order: the 0% FileProgress, the throttled FileProgress messages, the 100%
\* FileProgress for OK and CORRUPTED, the GlobalProgress, then exactly one LogLine; and
\* the entry's outcome counter is incremented before the processed-files counter, so
\* the processed-files counter is never ahead of ok + corrupted + missing.
C29_EntryOrder ==
  /\ \A w \in Workers : EntryOrder(w)
  /\ InRun => g_filesProcessedCount <= Counted

\* C30: when the TaskComplete message carries wasCanceled = false, VerifyFile returned
\* a status other than CANCELED for every entry of the manifest, the processed-files
\* counter equals totalFiles, and exactly totalFiles entry LogLines were posted.
C30_NotCanceledMeansAll ==
  \A i \in RunEventsOf("TaskComplete") :
    ~runEvents[i].wasCanceled =>
      /\ g_filesProcessedCount = runEvents[i].totalFiles
      /\ Cardinality(LoggedEntries) = runEvents[i].totalFiles
      /\ \A e \in 0..(MaxFiles - 1) :
           fileEvents[e] = IF e < runEvents[i].totalFiles THEN <<"start", "log">> ELSE <<>>
      /\ Len(globalEvents) = runEvents[i].totalFiles + 1
      /\ sinceStop.outcomes = 0

\* one worker went through a manifest of MaxFiles entries and the run completed with
\* wasCanceled = false
C30_Witness ==
  /\ mgr.pc = "m_clear" /\ mgr.numThreads = 1
  /\ \E i \in RunEventsOf("TaskComplete") :
       ~runEvents[i].wasCanceled /\ runEvents[i].totalFiles = MaxFiles
  /\ g_filesProcessedCount = MaxFiles

\* the TaskComplete messages that carry wasCanceled = true
CanceledCompletes == {i \in RunEventsOf("TaskComplete") : runEvents[i].wasCanceled}

\* C31 as claimed: when TaskComplete carries wasCanceled = true, the processed-files
\* counter is below totalFiles: at least one entry of the manifest has no outcome.
C31_CanceledCutShort ==
  \A i \in CanceledCompletes : g_filesProcessedCount < runEvents[i].totalFiles

\* C31: when TaskComplete carries wasCanceled = true, a Stop of this run had set
\* g_stopRequested before ManagerThread read it after the join; the processed-files
\* counter is at most totalFiles, and equals it when the Stop came after the last
\* entry was booked.
C31_CanceledMeansStopped ==
  \A i \in CanceledCompletes :
    /\ cancelTriggered
    /\ g_filesProcessedCount <= runEvents[i].totalFiles
    /\ mgr.pc = "m_clear" => g_stopRequested

\* a run reported as canceled in which every entry of the manifest was processed
C31_Witness ==
  /\ mgr.pc = "m_clear" /\ CanceledCompletes # {}
  /\ mgr.totalFiles = MaxFiles
  /\ g_filesProcessedCount = MaxFiles
  /\ Cardinality(LoggedEntries) = MaxFiles

\* C32: the GlobalProgress messages of a run are posted with strictly increasing
\* filesDone, so in a run that was not canceled the last one before TaskComplete
\* carries filesDone = totalFiles, whatever the workers' interleaving between the
\* increment of g_filesProcessedCount and the PostMessage.
C32_GlobalProgressIncreasing ==
  /\ \A i, j \in 1..Len(globalEvents) : i < j => globalEvents[i] < globalEvents[j]
  /\ \A i \in RunEventsOf("TaskComplete") :
       ~runEvents[i].wasCanceled =>
         globalEvents[Len(globalEvents)] = runEvents[i].totalFiles

\* a worker thread of the pool is running
Running(w) == wk[w].pc \notin {"idle", "exited"}

\* C33: at most one run is active.  A command received while g_isRunning is true
\* starts no ManagerThread, it only sets g_stopRequested; g_isRunning is cleared only
\* by ManagerThread, after its terminal message; so a ManagerThread exists exactly
\* while g_isRunning is true, the counters, the cursor and the flag are reset only
\* by it at its start, and workers run only between its spawn and its join.
C33_OneRunActive ==
  /\ [](g_isRunning = (mgr.pc # "idle"))
  /\ [](\A w \in Workers : Running(w) => mgr.pc = "m_join")
  /\ [][/\ (mgr'.pc = "m_reset" /\ mgr # mgr') => (~g_isRunning /\ mgr.pc = "idle")
        /\ (g_isRunning /\ ~g_isRunning') => (mgr.pc = "m_clear" /\ TerminalPosted)
        /\ (g_isRunning /\ mgr' = mgr /\ wk' = wk /\ g_stopRequested' # g_stopRequested)
             => g_stopRequested'
        /\ (\/ g_stopRequested /\ ~g_stopRequested'
            \/ g_nextFileIndex' < g_nextFileIndex
            \/ g_filesProcessedCount' < g_filesProcessedCount
            \/ g_CountOk' < g_CountOk
            \/ g_CountCorrupted' < g_CountCorrupted
            \/ g_CountMissing' < g_CountMissing)
             => (mgr.pc = "m_reset" /\ \A w \in Workers : ~Running(w))]_vars

\* a Stop command arrived while the pool of a run was at work
C33_Witness ==
  /\ g_isRunning /\ mgr.pc = "m_join"
  /\ g_stopRequested /\ cancelTriggered
  /\ \E w \in Workers : wk[w].pc = "v_read"

\* C34: every index with which a worker reads the work list is below totalFiles, and
\* g_nextFileIndex never exceeds totalFiles plus the number of workers: each worker
\* fetches an index at or beyond totalFiles at most once, and then leaves its loop.
C34_IndexInRange ==
  /\ \A w \in Workers :
       wk[w].pc \in {"v_start", "v_probe", "v_read", "v_finish", "v_done",
                     "w_count", "w_global", "w_log"}
         => wk[w].idx \in 0..(mgr.totalFiles - 1)
  /\ mgr.pc \notin {"idle", "m_reset", "terminated"}
       => g_nextFileIndex <= mgr.totalFiles + mgr.numThreads

\* a pool of MaxPool workers has ended and each worker overshot the list once
C34_Witness ==
  /\ mgr.pc = "m_clear" /\ mgr.numThreads = MaxPool
  /\ mgr.totalFiles > 0
  /\ g_nextFileIndex = mgr.totalFiles + MaxPool
  /\ g_filesProcessedCount = mgr.totalFiles

(***************************************************************************)
(* The statics of ComputeCRC32C under the workers that enter it side by    *)
(* side.  crc32c_table and table_initialized are plain objects written and *)
(* read without synchronisation: the accesses race, so the stores of a     *)
(* thread reach memory in any order, and a thread reads its own latest     *)
(* store or memory.                                                        *)
(***************************************************************************)
InitTable ==
  /\ InitRun
  /\ line = <<>> /\ parsed = NotParsed /\ h = <<>> /\ normalized = NotNormalized
  /\ hardware = AnyHardware /\ longest = MaxChunks
  /\ now = Unobserved /\ ThrottleIdle /\ faults = {}
  /\ crcRun = NoCrc /\ speed = NoSamples /\ sinceStop = NoneSinceStop
  /\ crc32c = [NoTable EXCEPT
                 !.threads = [t \in 1..MaxCallers |-> [@[t] EXCEPT !.pc = "test"]]]

\* the locations of the statics: the entries of crc32c_table, by index, and
\* table_initialized, after them
Initialized == MaxEntry + 1

\* what thread t reads at a location: its own latest store to it that has not
\* reached memory, else memory
Load(t, loc) ==
  LET own == {k \in 1..Len(crc32c.threads[t].stores) :
                crc32c.threads[t].stores[k].loc = loc}
  IN IF own # {}
     THEN crc32c.threads[t].stores[CHOOSE k \in own : \A j \in own : j <= k].val
     ELSE IF loc = Initialized THEN crc32c.table_initialized ELSE crc32c.table[loc]

\* the stores of thread t that can reach memory next: no order among the stores to
\* different locations, the order of the program among those to one location
Reaching(t) ==
  {k \in 1..Len(crc32c.threads[t].stores) :
     \A j \in 1..(k - 1) :
       crc32c.threads[t].stores[j].loc # crc32c.threads[t].stores[k].loc}

TableUnchanged ==
  UNCHANGED <<variant, g_isRunning, g_stopRequested, counters, g_nextFileIndex,
              g_filesProcessedCount, mgr, wk, disk, posts, cancelTriggered,
              uiClosed, line, parsed, h, normalized, hardware, longest, faults,
              crcRun, speed, sinceStop, throttle, g_lastUIUpdate>>

\* if (!table_initialized)
TestInitialized(t) ==
  /\ crc32c.threads[t].pc = "test"
  /\ crc32c' = [crc32c EXCEPT
                  !.threads[t].pc = IF Load(t, Initialized) THEN "loop" ELSE "fill"]
  /\ TableUnchanged

\* one pass of for (uint32_t i = 0; i < 256; i++): crc32c_table[i] = c
FillEntry(t) ==
  /\ crc32c.threads[t].pc = "fill"
  /\ LET i == crc32c.threads[t].i
     IN crc32c' = [crc32c EXCEPT
                     !.threads[t].stores =
                        Append(@, [loc |-> i, val |-> crc_table("CRC32C", i)]),
                     !.threads[t].i = i + 1,
                     !.threads[t].pc = IF i = MaxEntry THEN "flag" ELSE "fill"]
  /\ TableUnchanged

\* table_initialized = true
SetInitialized(t) ==
  /\ crc32c.threads[t].pc = "flag"
  /\ crc32c' = [crc32c EXCEPT
                  !.threads[t].stores = Append(@, [loc |-> Initialized, val |-> TRUE]),
                  !.threads[t].pc = "loop"]
  /\ TableUnchanged

\* a store of thread t reaches memory
StoreReaches(t) ==
  /\ \E k \in Reaching(t) :
       LET st   == crc32c.threads[t].stores[k]
           rest == [j \in 1..(Len(crc32c.threads[t].stores) - 1) |->
                      crc32c.threads[t].stores[IF j < k THEN j ELSE j + 1]]
       IN crc32c' = [crc32c EXCEPT
                       !.threads[t].stores = rest,
                       !.table = IF st.loc = Initialized THEN @
                                 ELSE [@ EXCEPT ![st.loc] = st.val],
                       !.table_initialized =
                          IF st.loc = Initialized THEN st.val ELSE @]
  /\ TableUnchanged

\* one CRC step of the update loop: crc32c_table[(crc ^ (uint8_t)buffer[i]) & 0xFF]
\* is read, at an index the file's bytes decide
TableStep(t) ==
  /\ crc32c.threads[t].pc = "loop"
  /\ \E n \in 0..MaxEntry :
       crc32c' = [crc32c EXCEPT
                    !.threads[t].read = <<[index |-> n, val |-> Load(t, n)]>>,
                    !.threads[t].pc = "done"]
  /\ TableUnchanged

NextTable ==
  \/ \E t \in 1..MaxCallers : TestInitialized(t)
  \/ \E t \in 1..MaxCallers : FillEntry(t)
  \/ \E t \in 1..MaxCallers : SetInitialized(t)
  \/ \E t \in 1..MaxCallers : StoreReaches(t)
  \/ \E t \in 1..MaxCallers : TableStep(t)

SpecTable == InitTable /\ [][NextTable]_vars

\* C35: when several workers enter ComputeCRC32C side by side on first use, no CRC
\* step reads a crc32c_table entry that differs from the final value of the table:
\* table_initialized is true in memory only when every entry has been written, and a
\* second initialisation writes the same values.
C35_TableEntriesFinal ==
  /\ \A t \in 1..MaxCallers : \A k \in 1..Len(crc32c.threads[t].read) :
       crc32c.threads[t].read[k].val =
         crc_table("CRC32C", crc32c.threads[t].read[k].index)
  /\ crc32c.table_initialized =>
       \A n \in 0..MaxEntry : crc32c.table[n] = crc_table("CRC32C", n)
  /\ \A t \in 1..MaxCallers : \A k \in 1..Len(crc32c.threads[t].stores) :
       crc32c.threads[t].stores[k].loc # Initialized =>
         crc32c.threads[t].stores[k].val =
           crc_table("CRC32C", crc32c.threads[t].stores[k].loc)

=============================================================================
